---- MODULE Spec2Model ----
(***************************************************************************)
(* Verification model of antigravity-Bridge.                               *)
(*                                                                         *)
(*   - the message aggregator of main.go (handleMessage, the debounce      *)
(*     timer callback, the batch composition, the run goroutine),          *)
(*   - the template matcher of the automation package (findImageInImage),  *)
(*   - the Workflow Orchestrator of the automation package (FullWorkflow,  *)
(*     FullWorkflowImage, FullWorkflowMediaGroup, MonitorProcess).         *)
(*   - the protocol server of the mcp package (Server.Start,               *)
(*     handleRequest, writeOutput).                                        *)
(*                                                                         *)
(* Time is counted in whole seconds.                                       *)
(***************************************************************************)
EXTENDS Integers, Sequences, FiniteSets, TLC

VARIABLES
    now,        \* wall clock, in seconds
    arrivals,   \* history: the messages passed to handleMessage, in call order
    bufferMap,  \* bufferMap: chat id -> buffer instance (0: no entry)
    bufs,       \* heap of MsgBuffer instances: [Messages, Timer]
    timers,     \* every time.AfterFunc timer ever created, with its callback's progress
    runs,       \* every run goroutine started by a timer callback
    fs,         \* the transient files present: a set of [path, owner]
    screenImg,  \* template matcher: the decoded screen capture
    tmplImg,    \* template matcher: the decoded reference template
    match,      \* template matcher: the result of findImageInImage, once computed
    wf,         \* one Workflow Orchestrator call followed action by action
    locking,    \* bufferLock, the handleMessage goroutines and the unlocked accesses
    server      \* the protocol server: its input, goroutines, output and mutex

aggVars == <<now, arrivals, bufferMap, bufs, timers, runs, fs>>

matchVars == <<screenImg, tmplImg, match>>

vars == <<now, arrivals, bufferMap, bufs, timers, runs, fs, screenImg, tmplImg, match, wf,
          locking, server>>

(***************************************************************************)
(* Bounds and program constants                                            *)
(***************************************************************************)
NumChats == 2          \* conversation ids 1..NumChats
MaxMsgs == 3           \* message ids 1..MaxMsgs, each delivered at most once
MaxTime == 4           \* the clock stops at MaxTime
Window == 2            \* quiescence window of the debounce timer, seconds

Chats == 1..NumChats
MsgIds == 1..MaxMsgs

(***************************************************************************)
(* Messages (tb.Message): ID, Chat, Text, Caption, Photo, Document.        *)
(* Text and Caption are sequences of characters; Photo is TRUE when        *)
(* msg.Photo # nil; Document is "none" (nil), "noext" (a file name without *)
(* extension) or "pdf" (a file name ending in .pdf).                       *)
(***************************************************************************)
NL == "\n"

TextMsg == [Text |-> <<"a">>, Caption |-> <<>>, Photo |-> FALSE, Document |-> "none"]
PhotoMsg == [Text |-> <<>>, Caption |-> <<"b">>, Photo |-> TRUE, Document |-> "none"]

\* the kinds of message the chat platform delivers in the aggregator specification
ArrivalKinds == {TextMsg, PhotoMsg}

Msg(id, c, k) ==
    [ID |-> id, Chat |-> c, Text |-> k.Text, Caption |-> k.Caption,
     Photo |-> k.Photo, Document |-> k.Document]

(***************************************************************************)
(* Batch composition: the body of the timer callback after the drain       *)
(* (main.go 245-294), as pure operators.                                   *)
(***************************************************************************)

\* sort.Slice(messages, ID <): insertion of the last element into a sorted prefix
RECURSIVE InsertByID(_, _)
InsertByID(sorted, m) ==
    IF sorted = <<>> THEN <<m>>
    ELSE IF m.ID < sorted[Len(sorted)].ID
         THEN Append(InsertByID(SubSeq(sorted, 1, Len(sorted) - 1), m), sorted[Len(sorted)])
         ELSE Append(sorted, m)

SortUnsorted(messages) == messages

RECURSIVE SortByID(_)
SortByID(messages) ==
    IF messages = <<>> THEN <<>>
    ELSE InsertByID(SortByID(SubSeq(messages, 1, Len(messages) - 1)), messages[Len(messages)])

\* the text fragment of one message: Text, else Caption, else none
TextPartCaptionFirst(msg) ==
    IF msg.Caption # <<>> THEN <<msg.Caption>>
    ELSE IF msg.Text # <<>> THEN <<msg.Text>>
    ELSE <<>>

TextPart(msg) ==
    IF msg.Text # <<>> THEN <<msg.Text>>
    ELSE IF msg.Caption # <<>> THEN <<msg.Caption>>
    ELSE <<>>

\* fID # "": the message carries a photo or a document
HasFile(msg) == msg.Photo \/ msg.Document # "none"

\* fExt: ".png" unless the message is a document whose file name has an extension
fExt(msg) ==
    IF msg.Photo THEN ".png"
    ELSE IF msg.Document = "pdf" THEN ".pdf"
    ELSE ".png"

\* filepath.Join(os.TempDir(), "tg_batch_<chatID>_<i><ext>"), i the 0-based loop index
localPath(chatID, i, ext) == <<"tg_batch", chatID, i, ext>>

\* txtParts after the loop over messages[1..n]
RECURSIVE TxtParts(_, _)
TxtParts(messages, n) ==
    IF n = 0 THEN <<>>
    ELSE TxtParts(messages, n - 1) \o TextPart(messages[n])

\* imagePaths after the loop over messages[1..n]; ok[i] is the outcome of the
\* i-th b.Download (TRUE: err == nil).  A failed download is logged and skipped.
RECURSIVE ImagePaths(_, _, _, _)
ImagePaths(messages, chatID, ok, n) ==
    IF n = 0 THEN <<>>
    ELSE ImagePaths(messages, chatID, ok, n - 1) \o
         (IF HasFile(messages[n]) /\ ok[n]
          THEN <<localPath(chatID, n - 1, fExt(messages[n]))>>
          ELSE <<>>)

\* strings.Join(parts, "\n")
RECURSIVE Join(_)
Join(parts) ==
    IF parts = <<>> THEN <<>>
    ELSE IF Len(parts) = 1 THEN parts[1]
    ELSE parts[1] \o <<NL>> \o Join(Tail(parts))

\* contentWithContext
ContentWithContext(chatID, fullText, imagePaths) ==
    <<"From Telegram [", chatID, "]: ">> \o fullText \o
    (IF Len(imagePaths) > 0 THEN <<" (Group/Attachments)">> ELSE <<>>)

\* which Workflow Orchestrator entry point the run goroutine calls
VariantAlwaysText(imagePaths) == "FullWorkflow"

Variant(imagePaths) ==
    IF Len(imagePaths) > 0 THEN "FullWorkflowMediaGroup" ELSE "FullWorkflow"

\* the batch a callback composes from its drained messages and download outcomes
Compose(drained, chatID, ok) ==
    LET messages == SortByID(drained)
        imagePaths == ImagePaths(messages, chatID, ok, Len(messages))
        fullText == Join(TxtParts(messages, Len(messages)))
    IN  [messages |-> messages,
         imagePaths |-> imagePaths,
         fullText |-> fullText,
         content |-> ContentWithContext(messages[1].Chat, fullText, imagePaths),
         variant |-> Variant(imagePaths)]

(***************************************************************************)
(* The message aggregator (main.go 147-315).                               *)
(*                                                                         *)
(* A timer is "armed" until it expires or is stopped.  When it expires the *)
(* runtime starts its callback in a goroutine of its own ("fired"): the    *)
(* callback then waits for bufferLock, drains under the lock ("drained"),  *)
(* composes the batch outside the lock and starts the run ("done").        *)
(* Timer.Stop on a timer that has already expired does nothing.            *)
(***************************************************************************)
NoFile == {}

WriteFile(files, path, owner) ==
    {f \in files : f.path # path} \cup {[path |-> path, owner |-> owner]}

RemoveFile(files, path) == {f \in files : f.path # path}

RECURSIVE WriteAll(_, _, _)
WriteAll(files, paths, owner) ==
    IF paths = <<>> THEN files
    ELSE WriteAll(WriteFile(files, Head(paths), owner), Tail(paths), owner)

RECURSIVE RemoveAll(_, _)
RemoveAll(files, paths) ==
    IF paths = <<>> THEN files
    ELSE RemoveAll(RemoveFile(files, Head(paths)), Tail(paths))

Delivered == {arrivals[k].msg.ID : k \in 1..Len(arrivals)}

\* the matcher is not part of the aggregator and run specifications
NoImage == [W |-> 0, H |-> 0, Pix |-> <<>>, packed |-> FALSE]

\* findImageInImage has not been called yet
Pending == [done |-> FALSE, x |-> -1, y |-> -1, found |-> FALSE]

\* no Workflow Orchestrator call is followed
NoWorkflow == [pc |-> "none"]

\* the goroutines and the lock are not followed statement by statement
NoLocking == [holder |-> <<"none", 0>>]

\* the protocol server is not part of the specification
NoServer == [pc |-> "none"]

MatchIdle ==
    /\ screenImg = NoImage
    /\ tmplImg = NoImage
    /\ match = Pending
    /\ wf = NoWorkflow
    /\ locking = NoLocking
    /\ server = NoServer

InitAgg ==
    /\ MatchIdle
    /\ now = 0
    /\ arrivals = <<>>
    /\ bufferMap = [c \in Chats |-> 0]
    /\ bufs = <<>>
    /\ timers = <<>>
    /\ runs = <<>>
    /\ fs = NoFile

\* buf.Timer.Stop(): only a timer that has not expired yet is prevented from firing
StopTimer(ts, t) ==
    IF t # 0 /\ ts[t].st = "armed" THEN [ts EXCEPT ![t].st = "stopped"] ELSE ts

\* chatID := m.Chat.ID, the key of the registry
chatIDShared(m) == 1

chatIDOf(m) == m.Chat

\* handleMessage(m), the whole critical section under bufferLock
handleMessage(m) ==
    LET chatID == chatIDOf(m)
        exists == bufferMap[chatID] # 0
        b == IF exists THEN bufferMap[chatID] ELSE Len(bufs) + 1
        heap == IF exists THEN bufs ELSE Append(bufs, [Messages |-> <<>>, Timer |-> 0])
        t == Len(timers) + 1
    IN  /\ arrivals' = Append(arrivals, [msg |-> m, at |-> now])
        /\ bufferMap' = [bufferMap EXCEPT ![chatID] = b]
        /\ bufs' = [heap EXCEPT ![b].Messages = Append(@, m), ![b].Timer = t]
        /\ timers' = Append(StopTimer(timers, heap[b].Timer),
                            [chatID |-> chatID, buf |-> b, deadline |-> now + Window,
                             st |-> "armed", messages |-> <<>>])
        /\ UNCHANGED <<now, runs, fs, matchVars, wf, locking, server>>

\* the chat platform delivers a message: ids are unique, delivery order is free
\* (every handler runs in a goroutine of its own)
Deliver ==
    \E id \in MsgIds \ Delivered, c \in Chats, k \in ArrivalKinds :
        /\ now + Window <= MaxTime
        /\ handleMessage(Msg(id, c, k))

\* the runtime expires an armed timer at its deadline and starts the callback
TimerFire(t) ==
    /\ timers[t].st = "armed"
    /\ timers[t].deadline <= now
    /\ timers' = [timers EXCEPT ![t].st = "fired"]
    /\ UNCHANGED <<now, arrivals, bufferMap, bufs, runs, fs, matchVars, wf, locking, server>>

\* time passes; an armed timer expires no later than its deadline
Tick ==
    /\ now < MaxTime
    /\ \A t \in 1..Len(timers) : timers[t].st = "armed" => timers[t].deadline > now
    /\ now' = now + 1
    /\ UNCHANGED <<arrivals, bufferMap, bufs, timers, runs, fs, matchVars, wf, locking, server>>

\* callback, critical section: messages := buf.Messages; delete(bufferMap, chatID)
Drain(t) ==
    /\ timers[t].st = "fired"
    /\ timers' = [timers EXCEPT ![t].st = "drained",
                                ![t].messages = bufs[timers[t].buf].Messages]
    /\ bufferMap' = [bufferMap EXCEPT ![timers[t].chatID] = 0]
    /\ UNCHANGED <<now, arrivals, bufs, runs, fs, matchVars, wf, locking, server>>

\* the possible outcomes of the b.Download calls of one batch: ok[i] is TRUE when
\* the download for messages[i] returns no error (TRUE where nothing is downloaded)
DownloadOutcomes(messages) ==
    {ok \in [1..Len(messages) -> BOOLEAN] :
        \A i \in 1..Len(messages) : ~HasFile(messages[i]) => ok[i]}

\* if len(messages) == 0 { return }
NoMessagesOrOne(messages) == Len(messages) <= 1

NoMessages(messages) == Len(messages) = 0

\* callback, after the lock is released: sort, collect, download, go func()
Process(t) ==
    /\ timers[t].st = "drained"
    /\ timers' = [timers EXCEPT ![t].st = "done"]
    /\ IF NoMessages(timers[t].messages)
       THEN UNCHANGED <<runs, fs>>
       ELSE \E ok \in DownloadOutcomes(SortByID(timers[t].messages)) :
                LET batch == Compose(timers[t].messages, timers[t].chatID, ok)
                IN  /\ runs' = Append(runs, [timer |-> t,
                                             chatID |-> timers[t].chatID,
                                             firedAt |-> timers[t].deadline,
                                             batch |-> batch,
                                             downloaded |-> ok,
                                             pc |-> "start",
                                             exit |-> "",
                                             notFoundCount |-> 0])
                    /\ fs' = WriteAll(fs, batch.imagePaths, t)
    /\ UNCHANGED <<now, arrivals, bufferMap, bufs, matchVars, wf, locking, server>>

(***************************************************************************)
(* The run goroutine (main.go 296-313) and the Workflow Orchestrator       *)
(* (automation package: FullWorkflow, FullWorkflowMediaGroup,              *)
(* FindAndClick, MonitorProcess).  The screen, the clipboard and the       *)
(* templates are the environment: every call that can fail or find draws   *)
(* its outcome nondeterministically.  The two timeouts of MonitorProcess   *)
(* are channel receives of a select: they may win whenever they are drawn. *)
(***************************************************************************)
maxNotFound == 5

screenPng == <<"screen.png">>
monitorCheckPng == <<"monitor_check.png">>
monitorScreenPng == <<"monitor_screen.png">>

Owner(r) == runs[r].timer

\* the workflow function returns (its locals are gone): the goroutine is left with
\* its deferred cleanup
Return(r, exit) ==
    [runs EXCEPT ![r].pc = "cleanup", ![r].exit = exit, ![r].notFoundCount = 0]

\* FullWorkflow: SetClipboard(text) first; FullWorkflowMediaGroup: FindAndClick first
RunStart(r) ==
    /\ runs[r].pc = "start"
    /\ IF runs[r].batch.variant = "FullWorkflow"
       THEN \E clipboardOk \in BOOLEAN :
                runs' = IF clipboardOk THEN [runs EXCEPT ![r].pc = "find"]
                        ELSE Return(r, "clipboard_failure")
       ELSE runs' = [runs EXCEPT ![r].pc = "find"]
    /\ UNCHANGED <<now, arrivals, bufferMap, bufs, timers, fs, matchVars, wf, locking, server>>

\* FindAndClick, up to the screenshot: os.Remove(screen.png); scrot screen.png
FindCapture(r) ==
    /\ runs[r].pc = "find"
    /\ \E scrotOk \in BOOLEAN :
          IF scrotOk
          THEN /\ fs' = WriteFile(fs, screenPng, Owner(r))
               /\ runs' = [runs EXCEPT ![r].pc = "find_loaded"]
          ELSE /\ fs' = RemoveFile(fs, screenPng)
               /\ runs' = Return(r, "capture_failure")
    /\ UNCHANGED <<now, arrivals, bufferMap, bufs, timers, matchVars, wf, locking, server>>

\* FindAndClick, after the screenshot: load both images, match, click; the deferred
\* os.Remove(screen.png) runs on every one of these returns
FindMatch(r) ==
    /\ runs[r].pc = "find_loaded"
    /\ fs' = RemoveFile(fs, screenPng)
    /\ \E outcome \in {"capture_failure", "template_decode_failure",
                       "input_not_found", "found"} :
          runs' = IF outcome = "found" THEN [runs EXCEPT ![r].pc = "place"]
                  ELSE Return(r, outcome)
    /\ UNCHANGED <<now, arrivals, bufferMap, bufs, timers, matchVars, wf, locking, server>>

\* the content is pasted and submitted (PasteAndSubmit; or the image loop, the
\* caption and Return of FullWorkflowMediaGroup); MonitorProcess starts
PlaceAndSubmit(r) ==
    /\ runs[r].pc = "place"
    /\ runs' = [runs EXCEPT ![r].pc = "await"]
    /\ UNCHANGED <<now, arrivals, bufferMap, bufs, timers, fs, matchVars, wf, locking, server>>

\* MonitorProcess phase 1, one select: the 10 s timeout, or a tick up to the screenshot
AwaitTick(r) ==
    /\ runs[r].pc = "await"
    /\ \E outcome \in {"await_timeout", "template_decode_failure", "scrot", "scrot_failed"} :
          CASE outcome = "scrot" ->
                  /\ fs' = WriteFile(fs, monitorCheckPng, Owner(r))
                  /\ runs' = [runs EXCEPT ![r].pc = "await_cap"]
            [] outcome = "scrot_failed" ->
                  /\ fs' = fs
                  /\ runs' = [runs EXCEPT ![r].pc = "await_cap"]
            [] OTHER ->
                  /\ fs' = fs
                  /\ runs' = Return(r, outcome)
    /\ UNCHANGED <<now, arrivals, bufferMap, bufs, timers, matchVars, wf, locking, server>>

\* phase 1, rest of the tick: load the capture, remove it, look for the busy indicator
AwaitCheck(r) ==
    /\ runs[r].pc = "await_cap"
    /\ fs' = RemoveFile(fs, monitorCheckPng)
    /\ \E found \in BOOLEAN :
          runs' = [runs EXCEPT ![r].pc = IF found THEN "monitor" ELSE "await"]
    /\ UNCHANGED <<now, arrivals, bufferMap, bufs, timers, matchVars, wf, locking, server>>

\* MonitorProcess phase 2, one select: the 300 s timeout, or a tick up to the screenshot
MonitorTick(r) ==
    /\ runs[r].pc = "monitor"
    /\ \E outcome \in {"safety_timeout", "scrot", "scrot_failed"} :
          CASE outcome = "scrot" ->
                  /\ fs' = WriteFile(fs, monitorScreenPng, Owner(r))
                  /\ runs' = [runs EXCEPT ![r].pc = "monitor_cap"]
            [] outcome = "scrot_failed" ->
                  /\ fs' = RemoveFile(fs, monitorScreenPng)
                  /\ runs' = [runs EXCEPT ![r].pc = "monitor_cap"]
            [] OTHER ->
                  /\ fs' = fs
                  /\ runs' = Return(r, outcome)
    /\ UNCHANGED <<now, arrivals, bufferMap, bufs, timers, matchVars, wf, locking, server>>

\* phase 2, rest of the tick: load the capture, remove it, check the busy indicator
MonitorCheck(r) ==
    /\ runs[r].pc = "monitor_cap"
    /\ fs' = RemoveFile(fs, monitorScreenPng)
    /\ \E outcome \in {"capture_failure", "template_decode_failure", "not_found", "found"} :
          runs' =
            CASE outcome = "capture_failure" -> [runs EXCEPT ![r].pc = "monitor"]
              [] outcome = "template_decode_failure" -> Return(r, outcome)
              [] outcome = "not_found" ->
                    IF runs[r].notFoundCount + 1 >= maxNotFound
                    THEN Return(r, "normal")
                    ELSE [runs EXCEPT ![r].pc = "monitor", ![r].notFoundCount = @ + 1]
              [] OTHER -> [runs EXCEPT ![r].pc = "monitor", ![r].notFoundCount = 0]
    /\ UNCHANGED <<now, arrivals, bufferMap, bufs, timers, matchVars, wf, locking, server>>

\* the deferred func of the run goroutine: os.Remove of every downloaded path
CleanupNothing(r) ==
    /\ runs[r].pc = "cleanup"
    /\ runs' = [runs EXCEPT ![r].pc = "done"]
    /\ UNCHANGED <<now, arrivals, bufferMap, bufs, timers, fs, matchVars, wf, locking, server>>

Cleanup(r) ==
    /\ runs[r].pc = "cleanup"
    /\ fs' = RemoveAll(fs, runs[r].batch.imagePaths)
    /\ runs' = [runs EXCEPT ![r].pc = "done"]
    /\ UNCHANGED <<now, arrivals, bufferMap, bufs, timers, matchVars, wf, locking, server>>

NextRun ==
    \/ \E t \in 1..Len(timers) : Process(t)
    \/ \E r \in 1..Len(runs) : RunStart(r)
    \/ \E r \in 1..Len(runs) : FindCapture(r)
    \/ \E r \in 1..Len(runs) : FindMatch(r)
    \/ \E r \in 1..Len(runs) : PlaceAndSubmit(r)
    \/ \E r \in 1..Len(runs) : AwaitTick(r)
    \/ \E r \in 1..Len(runs) : AwaitCheck(r)
    \/ \E r \in 1..Len(runs) : MonitorTick(r)
    \/ \E r \in 1..Len(runs) : MonitorCheck(r)
    \/ \E r \in 1..Len(runs) : Cleanup(r)

(***************************************************************************)
(* Specification of the runs: it starts where callbacks have drained their *)
(* buffers (up to MaxCallbacks of them, of any conversations) and follows  *)
(* the downloads, the runs and their cleanup.                              *)
(***************************************************************************)
MaxCallbacks == 2

\* the message lists a callback can have drained: one message of either kind, or
\* a message of either kind followed by a photo
DrainedLists(k) ==
    {<<Msg(2 * k - 1, c, a)>> : c \in Chats, a \in ArrivalKinds} \cup
    {<<Msg(2 * k - 1, c, a), Msg(2 * k, c, PhotoMsg)>> : c \in Chats, a \in ArrivalKinds}

DrainedCallback(k, messages) ==
    [chatID |-> messages[1].Chat, buf |-> k, deadline |-> 0,
     st |-> "drained", messages |-> messages]

InitRun ==
    /\ MatchIdle
    /\ now = 0
    /\ arrivals = <<>>
    /\ bufferMap = [c \in Chats |-> 0]
    /\ bufs = <<>>
    /\ runs = <<>>
    /\ fs = NoFile
    /\ \E n \in 1..MaxCallbacks :
          \E lists \in [1..n -> UNION {DrainedLists(k) : k \in 1..MaxCallbacks}] :
              /\ \A k \in 1..n : lists[k] \in DrainedLists(k)
              /\ timers = [k \in 1..n |-> DrainedCallback(k, lists[k])]

SpecRun == InitRun /\ [][NextRun]_vars

(***************************************************************************)
(* Specification of the batch composition alone: one callback has drained  *)
(* any list of up to MaxBatch messages of one conversation, with distinct  *)
(* sequence identifiers appended in any order, and composes its batch.     *)
(***************************************************************************)
MaxBatch == 2

ComposeKinds ==
    {[Text |-> <<"a">>, Caption |-> <<>>,    Photo |-> FALSE, Document |-> "none"],
     [Text |-> <<>>,    Caption |-> <<"b">>, Photo |-> TRUE,  Document |-> "none"],
     [Text |-> <<>>,    Caption |-> <<>>,    Photo |-> TRUE,  Document |-> "none"],
     [Text |-> <<>>,    Caption |-> <<"b">>, Photo |-> FALSE, Document |-> "pdf"],
     [Text |-> <<"a">>, Caption |-> <<"b">>, Photo |-> FALSE, Document |-> "noext"],
     [Text |-> <<>>,    Caption |-> <<>>,    Photo |-> FALSE, Document |-> "none"]}

ComposeInputs ==
    UNION {
        {[i \in 1..n |-> Msg(ids[i], c, kinds[i])] :
            ids \in {f \in [1..n -> MsgIds] : \A i \in 1..n, j \in 1..n : i # j => f[i] # f[j]},
            kinds \in [1..n -> ComposeKinds],
            c \in Chats}
        : n \in 1..MaxBatch}

InitCompose ==
    /\ MatchIdle
    /\ now = 0
    /\ arrivals = <<>>
    /\ bufferMap = [c \in Chats |-> 0]
    /\ bufs = <<>>
    /\ runs = <<>>
    /\ fs = NoFile
    /\ \E messages \in ComposeInputs : timers = <<DrainedCallback(1, messages)>>

NextCompose == \E t \in 1..Len(timers) : Process(t)

SpecCompose == InitCompose /\ [][NextCompose]_vars


(***************************************************************************)
(* The template matcher (automation package: findImageInImage,             *)
(* findImageInImageFast, fastMatchRaw, bytesSimilar, colorDiff,            *)
(* slowMatchAt).  An image is [W, H, Pix, packed]: Pix is the byte buffer  *)
(* of an 8-bit RGBA raster with origin (0,0) and stride 4*W; packed says   *)
(* whether its Go type is *image.RGBA or *image.NRGBA (buffer exposed).    *)
(***************************************************************************)
NotFound == [x |-> -1, y |-> -1, found |-> FALSE]

Found(x, y) == [x |-> x, y |-> y, found |-> TRUE]

Stride(img) == 4 * img.W

\* the byte at 0-based offset off of a buffer
Byte(pix, off) == pix[off + 1]

\* bytesSimilar
bytesAlwaysSimilar(a, b) == TRUE

bytesSimilar(a, b) ==
    LET diff == IF a - b < 0 THEN b - a ELSE a - b
    IN  diff < 30

\* the three channel comparisons at screen offset sOff and template offset tOff
PixelSimilar(sPix, sOff, tPix, tOff) ==
    /\ bytesSimilar(Byte(sPix, sOff), Byte(tPix, tOff))
    /\ bytesSimilar(Byte(sPix, sOff + 1), Byte(tPix, tOff + 1))
    /\ bytesSimilar(Byte(sPix, sOff + 2), Byte(tPix, tOff + 2))

\* fastMatchRaw: the center pixel first, then every pixel of the template
fastMatchRaw(sPix, sStride, sx, sy, tPix, tStride, w, h) ==
    LET cx == w \div 2
        cy == h \div 2
    IN  /\ PixelSimilar(sPix, (sy + cy) * sStride + (sx + cx) * 4,
                        tPix, cy * tStride + cx * 4)
        /\ \A y \in 0..(h - 1) : \A x \in 0..(w - 1) :
               PixelSimilar(sPix, (sy + y) * sStride + (sx + x) * 4,
                            tPix, y * tStride + x * 4)

\* the scan loops of findImageInImageFast from candidate (x, y) on, row-major:
\* for y < maxY { for x < maxX { ... } }
RECURSIVE ScanFast(_, _, _, _, _, _, _, _, _, _)
ScanFast(sPix, sStride, tPix, tStride, w, h, maxX, maxY, x, y) ==
    IF y >= maxY THEN NotFound
    ELSE IF x >= maxX
         THEN ScanFast(sPix, sStride, tPix, tStride, w, h, maxX, maxY, 0, y + 1)
    ELSE IF /\ PixelSimilar(sPix, y * sStride + x * 4, tPix, 0)
            /\ fastMatchRaw(sPix, sStride, x, y, tPix, tStride, w, h)
         THEN Found(x, y)
    ELSE ScanFast(sPix, sStride, tPix, tStride, w, h, maxX, maxY, x + 1, y)

\* findImageInImageFast
findImageInImageFast(s, t) ==
    LET w == t.W
        h == t.H
        maxY == s.H - h
        maxX == s.W - w
    IN  IF maxY < 0 \/ maxX < 0 THEN NotFound
        ELSE ScanFast(s.Pix, Stride(s), t.Pix, Stride(t), w, h, maxX, maxY, 0, 0)

\* img.At(x, y).RGBA() of an 8-bit raster: each channel widened to 16 bits
RGBA16(img, x, y) ==
    LET off == y * Stride(img) + x * 4
    IN  [c \in 1..4 |-> Byte(img.Pix, off + c - 1) * 257]

abs(x) == IF x < 0 THEN -x ELSE x

\* colorDiff: TRUE when no colour channel differs by more than tol
tol == 8000

colorDiff(c1, c2) ==
    /\ ~(abs(c1[1] - c2[1]) > tol)
    /\ ~(abs(c1[2] - c2[2]) > tol)
    /\ ~(abs(c1[3] - c2[3]) > tol)

\* slowMatchAt
slowMatchAt(s, t, sx, sy) ==
    \A y \in 0..(t.H - 1) : \A x \in 0..(t.W - 1) :
        colorDiff(RGBA16(s, sx + x, sy + y), RGBA16(t, x, y))

\* the scan loops of the slow path from candidate (x, y) on:
\* for y < Max.Y - Dy { for x < Max.X - Dx { ... } }
RECURSIVE ScanSlow(_, _, _, _)
ScanSlow(s, t, x, y) ==
    IF y >= s.H - t.H THEN NotFound
    ELSE IF x >= s.W - t.W THEN ScanSlow(s, t, 0, y + 1)
    ELSE IF colorDiff(RGBA16(s, x, y), RGBA16(t, 0, 0)) /\ slowMatchAt(s, t, x, y)
         THEN Found(x, y)
    ELSE ScanSlow(s, t, x + 1, y)

\* findImageInImage: the fast path when both images expose their buffers
findImageInImage(s, t) ==
    IF s.packed /\ t.packed THEN findImageInImageFast(s, t)
    ELSE ScanSlow(s, t, 0, 0)

\* the candidate positions the scan loops of findImageInImageFast iterate over
CandidatesFast(s, t) ==
    LET maxY == s.H - t.H
        maxX == s.W - t.W
    IN  IF maxY < 0 \/ maxX < 0 THEN {}
        ELSE {<<x, y>> : x \in 0..(maxX - 1), y \in 0..(maxY - 1)}

\* the candidate positions the scan loops of the slow path iterate over
CandidatesSlow(s, t) ==
    {<<x, y>> : x \in 0..(s.W - t.W - 1), y \in 0..(s.H - t.H - 1)}

Candidates(s, t) ==
    IF s.packed /\ t.packed THEN CandidatesFast(s, t) ELSE CandidatesSlow(s, t)

\* the offsets of the screen buffer the fast path reads at candidate (sx, sy):
\* the first pixel, the center pixel and every pixel under the template
ScreenReads(s, t, sx, sy) ==
    {(sy + y) * Stride(s) + (sx + x) * 4 + c :
        x \in 0..(t.W - 1), y \in 0..(t.H - 1), c \in 0..2}

\* the offsets of the template buffer the fast path reads once it scans:
\* tPix[0..3], the center pixel and every pixel
TemplateReads(t) ==
    {0, 1, 2, 3} \cup
    {y * Stride(t) + x * 4 + c : x \in 0..(t.W - 1), y \in 0..(t.H - 1), c \in 0..2}

(***************************************************************************)
(* Specification of the matcher: any screen of up to MaxW x MaxH pixels    *)
(* and any template of up to MaxTW x MaxTH pixels over a palette of two    *)
(* colours, of either representation; the one action computes              *)
(* findImageInImage.                                                       *)
(***************************************************************************)
MaxW == 3
MaxH == 3
MaxTW == 2
MaxTH == 2

Dark == <<0, 0, 0, 255>>
Light == <<255, 255, 255, 255>>
Palette == {Dark, Light}

\* the byte buffer of the raster whose pixel k (row-major) has colour colours[k]
RECURSIVE PixOf(_)
PixOf(colours) ==
    IF colours = <<>> THEN <<>> ELSE Head(colours) \o PixOf(Tail(colours))

\* the decoded images of up to mw x mh pixels (a decoded PNG has at least one pixel)
ImagesUpTo(mw, mh) ==
    UNION {
        {[W |-> w, H |-> h, Pix |-> PixOf(colours), packed |-> p] :
            colours \in [1..(w * h) -> Palette], p \in BOOLEAN}
        : w \in 1..mw, h \in 1..mh}

\* the aggregator is not part of the matcher specification
AggIdle ==
    /\ now = 0
    /\ arrivals = <<>>
    /\ bufferMap = [c \in Chats |-> 0]
    /\ bufs = <<>>
    /\ timers = <<>>
    /\ runs = <<>>
    /\ fs = NoFile

InitMatch ==
    /\ AggIdle
    /\ wf = NoWorkflow
    /\ locking = NoLocking
    /\ server = NoServer
    /\ screenImg \in ImagesUpTo(MaxW, MaxH)
    /\ tmplImg \in ImagesUpTo(MaxTW, MaxTH)
    /\ match = Pending

\* x, y, found := findImageInImage(screenImg, tmplImg)
Locate ==
    /\ ~match.done
    /\ match' = [done |-> TRUE] @@ findImageInImage(screenImg, tmplImg)
    /\ UNCHANGED <<aggVars, screenImg, tmplImg, wf, locking, server>>

NextMatch == Locate

SpecMatch == InitMatch /\ [][NextMatch]_vars

(***************************************************************************)
(* The Workflow Orchestrator followed in detail (automation package:       *)
(* FullWorkflow, FullWorkflowImage, FullWorkflowMediaGroup, FindAndClick,  *)
(* PasteAndSubmit, MonitorProcess).  One call is followed; wf holds its    *)
(* position, the session state of MonitorProcess and what the call has     *)
(* done to the outside: wf.log lists the clipboard operations, key         *)
(* presses, clicks and status callbacks made outside the monitoring ticks, *)
(* wf.tick those of the latest monitoring tick.  The clock of the          *)
(* monitoring phase counts whole seconds from the creation of its ticker.  *)
(***************************************************************************)
MaxImages == 2         \* a media group call has 0..MaxImages image paths
MaxClock == 7          \* the monitoring phase is followed for MaxClock ticks

pulseInterval == 5

\* lastThinkingTime := time.Time{}, long before the session
zeroTime == -1000000

\* how long the status callback takes to return (a message sent over the
\* network), in whole seconds
SendDelays == {0, 1}

\* the positions at which findImageInImage finds a template on the screen
Spots == {<<3, 4>>}

Variants == {"FullWorkflow", "FullWorkflowImage", "FullWorkflowMediaGroup"}

\* what a call does to the outside
Ev(ev, arg) == [ev |-> ev, arg |-> arg, x |-> -1, y |-> -1]

\* SetClipboardImage of the i-th image path
ClipboardImage(i) == [ev |-> "clipboard", arg |-> "image", x |-> i, y |-> -1]

\* xdotool mousemove x y, click 1
ClickOffset(arg, x, y) == [ev |-> "click", arg |-> arg, x |-> x + 10, y |-> y + 10]

Click(arg, x, y) == [ev |-> "click", arg |-> arg, x |-> x, y |-> y]

PasteKey == Ev("key", "ctrl+v")
SubmitKey == Ev("key", "Return")
MonitorStart == Ev("monitor", "MonitorProcess")
FindInput == Ev("find", "input_box.png")
InputNotFoundStatus == Ev("status", "Error [v2]: input_box.png not found")
ClipboardImageStatus == Ev("status", "Error setting clipboard image")
ClipboardTextStatus == Ev("status", "Error setting clipboard text")
ThinkingStatus == Ev("status", "Thinking...")

\* no monitoring tick has been handled yet
NoTick == [n |-> 0, busy |-> "none", searched |-> FALSE, accept |-> NotFound, events |-> <<>>]

\* the state at the call of a workflow function
Call(variant, nImages, hasText) ==
    [variant |-> variant, nImages |-> nImages, hasText |-> hasText,
     pc |-> "start", exit |-> "", i |-> 0, log |-> <<>>, polled |-> FALSE,
     clock |-> 0, notFoundCount |-> 0, lastThinkingTime |-> zeroTime,
     tick |-> NoTick, checks |-> <<>>, lastPulseAt |-> zeroTime,
     stretchStart |-> -1, stretchPulses |-> 0]

Calls ==
    {Call("FullWorkflow", 0, TRUE), Call("FullWorkflowImage", 1, FALSE)} \cup
    {Call("FullWorkflowMediaGroup", n, t) : n \in 0..MaxImages, t \in BOOLEAN}

\* the workflow function returns
WfReturn(w, exit) == [w EXCEPT !.pc = "done", !.exit = exit]

WfLog(w, events) == [w EXCEPT !.log = @ \o events]

\* step 1 of FullWorkflow and FullWorkflowImage: the clipboard is set first;
\* FullWorkflowMediaGroup starts with FindAndClick
WfStart ==
    /\ wf.pc = "start"
    /\ \E ok \in BOOLEAN :
          wf' = CASE wf.variant = "FullWorkflow" ->
                       IF ok THEN [WfLog(wf, <<Ev("clipboard", "text")>>) EXCEPT !.pc = "find"]
                       ELSE WfReturn(WfLog(wf, <<Ev("clipboard_failed", "text")>>),
                                     "clipboard_failure")
                  [] wf.variant = "FullWorkflowImage" ->
                       IF ok THEN [WfLog(wf, <<ClipboardImage(1)>>) EXCEPT !.pc = "find"]
                       ELSE WfReturn(WfLog(wf, <<Ev("clipboard_failed", "image"),
                                                 ClipboardImageStatus>>),
                                     "clipboard_failure")
                  [] OTHER -> [wf EXCEPT !.pc = "find"]
    /\ UNCHANGED <<aggVars, matchVars, locking, server>>

\* the ways FindAndClick returns false: scrot or the load of the capture fails,
\* the load of the template fails, the template is not on the screen
InputFailures ==
    {"input_capture_failure", "input_template_decode_failure", "input_not_found"}

\* FindAndClick(input_box.png) and the branch of the caller on its result: the
\* click at (x + 10, y + 10) when found; the status callback and the return of
\* the workflow function on every false result
WfFindAndClickSilent ==
    /\ wf.pc = "find"
    /\ fs' = RemoveFile(fs, screenPng)
    /\ \/ \E p \in Spots :
             wf' = [WfLog(wf, <<FindInput, Click("input", p[1] + 10, p[2] + 10)>>)
                       EXCEPT !.pc = "place"]
       \/ \E failure \in InputFailures :
             wf' = WfReturn(WfLog(wf, <<FindInput>>), failure)
    /\ UNCHANGED <<now, arrivals, bufferMap, bufs, timers, runs, matchVars, locking, server>>

WfFindAndClick ==
    /\ wf.pc = "find"
    /\ fs' = RemoveFile(fs, screenPng)
    /\ \/ \E p \in Spots :
             wf' = [WfLog(wf, <<FindInput, Click("input", p[1] + 10, p[2] + 10)>>)
                       EXCEPT !.pc = "place"]
       \/ \E failure \in InputFailures :
             wf' = WfReturn(WfLog(wf, <<FindInput, InputNotFoundStatus>>), failure)
    /\ UNCHANGED <<now, arrivals, bufferMap, bufs, timers, runs, matchVars, locking, server>>

\* FullWorkflow and FullWorkflowImage, found: PasteAndSubmit, then MonitorProcess
WfPasteAndSubmit ==
    /\ wf.pc = "place"
    /\ wf.variant # "FullWorkflowMediaGroup"
    /\ wf' = [WfLog(wf, <<PasteKey, SubmitKey, MonitorStart>>) EXCEPT !.pc = "await"]
    /\ UNCHANGED <<aggVars, matchVars, locking, server>>

\* FullWorkflowMediaGroup, one iteration of the loop over imagePaths: a clipboard
\* failure is reported and the loop continues with the next image
WfPasteImage ==
    /\ wf.pc = "place"
    /\ wf.variant = "FullWorkflowMediaGroup"
    /\ wf.i < wf.nImages
    /\ \E ok \in BOOLEAN :
          wf' = [WfLog(wf, IF ok THEN <<ClipboardImage(wf.i + 1), PasteKey>>
                           ELSE <<Ev("clipboard_failed", "image"), ClipboardImageStatus>>)
                    EXCEPT !.i = @ + 1]
    /\ UNCHANGED <<aggVars, matchVars, locking, server>>

\* FullWorkflowMediaGroup after the loop: the text (when it is not empty), the
\* submit key, then MonitorProcess
WfCaptionAndSubmit ==
    /\ wf.pc = "place"
    /\ wf.variant = "FullWorkflowMediaGroup"
    /\ wf.i = wf.nImages
    /\ \E ok \in BOOLEAN :
          LET caption == IF ~wf.hasText THEN <<>>
                         ELSE IF ok THEN <<Ev("clipboard", "text"), PasteKey>>
                         ELSE <<Ev("clipboard_failed", "text"), ClipboardTextStatus>>
          IN  wf' = [WfLog(wf, caption \o <<SubmitKey, MonitorStart>>) EXCEPT !.pc = "await"]
    /\ UNCHANGED <<aggVars, matchVars, locking, server>>

\* MonitorProcess phase 1, one select: the 10 s timeout, or a 500 ms tick (load the
\* busy template, capture monitor_check.png, load it, remove it, look for the
\* busy indicator)
WfAwaitTimeoutReports ==
    /\ wf.pc = "await"
    /\ \E outcome \in {"await_timeout", "template_decode_failure",
                       "capture_failure", "not_found", "found"} :
          /\ wf' = CASE outcome = "await_timeout" ->
                        WfReturn(WfLog(wf, <<Ev("status", "Replying never appeared")>>),
                                 outcome)
                     [] outcome = "template_decode_failure" -> WfReturn(wf, outcome)
                     [] outcome = "capture_failure" -> wf
                     [] outcome = "not_found" -> [wf EXCEPT !.polled = TRUE]
                     [] OTHER -> [wf EXCEPT !.pc = "monitor"]
          /\ fs' = IF outcome \in {"await_timeout", "template_decode_failure"} THEN fs
                   ELSE RemoveFile(fs, monitorCheckPng)
    /\ UNCHANGED <<now, arrivals, bufferMap, bufs, timers, runs, matchVars, locking, server>>

WfAwaitNoCeiling ==
    /\ wf.pc = "await"
    /\ \E outcome \in {"template_decode_failure", "capture_failure", "not_found", "found"} :
          /\ wf' = CASE outcome = "template_decode_failure" -> WfReturn(wf, outcome)
                     [] outcome = "capture_failure" -> wf
                     [] outcome = "not_found" -> [wf EXCEPT !.polled = TRUE]
                     [] OTHER -> [wf EXCEPT !.pc = "monitor"]
          /\ fs' = IF outcome = "template_decode_failure" THEN fs
                   ELSE RemoveFile(fs, monitorCheckPng)
    /\ UNCHANGED <<now, arrivals, bufferMap, bufs, timers, runs, matchVars, locking, server>>

WfAwait ==
    /\ wf.pc = "await"
    /\ \E outcome \in {"await_timeout", "template_decode_failure",
                       "capture_failure", "not_found", "found"} :
          /\ wf' = CASE outcome \in {"await_timeout", "template_decode_failure"} ->
                        WfReturn(wf, outcome)
                     [] outcome = "capture_failure" -> wf
                     [] outcome = "not_found" -> [wf EXCEPT !.polled = TRUE]
                     [] OTHER -> [wf EXCEPT !.pc = "monitor"]
          /\ fs' = IF outcome \in {"await_timeout", "template_decode_failure"} THEN fs
                   ELSE RemoveFile(fs, monitorCheckPng)
    /\ UNCHANGED <<now, arrivals, bufferMap, bufs, timers, runs, matchVars, locking, server>>

\* the last maxNotFound busy checks, the latest last (TRUE: found)
Checked(checks, found) ==
    LET all == Append(checks, found)
    IN  IF Len(all) > maxNotFound THEN Tail(all) ELSE all

\* a monitoring tick whose capture could not be loaded: continue
TickSkippedCounted(w) ==
    [w EXCEPT !.clock = @ + 1,
              !.notFoundCount = IF @ + 1 < maxNotFound THEN @ + 1 ELSE @,
              !.tick = [n |-> w.clock + 1, busy |-> "skipped", searched |-> FALSE,
                        accept |-> NotFound, events |-> <<>>],
              !.stretchStart = -1, !.stretchPulses = 0]

TickSkipped(w) ==
    [w EXCEPT !.clock = @ + 1,
              !.tick = [n |-> w.clock + 1, busy |-> "skipped", searched |-> FALSE,
                        accept |-> NotFound, events |-> <<>>],
              !.stretchStart = -1, !.stretchPulses = 0]

\* a monitoring tick on which the busy template cannot be loaded: return
TickTemplateFailed(w) ==
    WfReturn([w EXCEPT !.clock = @ + 1,
                       !.tick = [n |-> w.clock + 1, busy |-> "template_decode_failure",
                                 searched |-> FALSE, accept |-> NotFound, events |-> <<>>],
                       !.stretchStart = -1, !.stretchPulses = 0],
             "template_decode_failure")

\* a monitoring tick on which the busy indicator is not found
TickAbsentEarly(w) ==
    LET counted == [w EXCEPT !.clock = @ + 1,
                             !.notFoundCount = @ + 1,
                             !.tick = [n |-> w.clock + 1, busy |-> "absent",
                                       searched |-> FALSE, accept |-> NotFound,
                                       events |-> <<>>],
                             !.checks = Checked(@, FALSE),
                             !.stretchStart = -1, !.stretchPulses = 0]
    IN  IF counted.notFoundCount >= maxNotFound - 1 THEN WfReturn(counted, "normal")
        ELSE counted

TickAbsent(w) ==
    LET counted == [w EXCEPT !.clock = @ + 1,
                             !.notFoundCount = @ + 1,
                             !.tick = [n |-> w.clock + 1, busy |-> "absent",
                                       searched |-> FALSE, accept |-> NotFound,
                                       events |-> <<>>],
                             !.checks = Checked(@, FALSE),
                             !.stretchStart = -1, !.stretchPulses = 0]
    IN  IF counted.notFoundCount >= maxNotFound THEN WfReturn(counted, "normal")
        ELSE counted

\* a monitoring tick on which the busy indicator is found: the streak is reset,
\* the status callback is called when the last one returned pulseInterval or more
\* ago (it takes delay to return), and the accept indicator is looked for on
\* the same capture when its template loads (accept: the result of that search)
TickFound(w, delay, loaded, accept) ==
    LET t == w.clock + 1
        pulse == t - w.lastThinkingTime >= pulseInterval
        searched == loaded
        result == IF searched THEN accept ELSE NotFound
        continues == w.tick.busy = "found"
    IN  [w EXCEPT !.clock = t,
                  !.notFoundCount = 0,
                  !.lastThinkingTime = IF pulse THEN t + delay ELSE @,
                  !.lastPulseAt = IF pulse THEN t ELSE @,
                  !.tick = [n |-> t, busy |-> "found", searched |-> searched,
                            accept |-> result,
                            events |-> (IF pulse THEN <<ThinkingStatus>> ELSE <<>>) \o
                                       (IF result.found
                                        THEN <<Click("accept", result.x, result.y)>>
                                        ELSE <<>>)],
                  !.checks = Checked(@, TRUE),
                  !.stretchStart = IF continues THEN @ ELSE t,
                  !.stretchPulses = (IF continues THEN @ ELSE 0) + (IF pulse THEN 1 ELSE 0)]

\* MonitorProcess phase 2, one select: the 300 s timeout, or a 1 s tick
WfMonitor ==
    /\ wf.pc = "monitor"
    /\ \/ /\ wf' = WfReturn(wf, "safety_timeout")
          /\ fs' = fs
       \/ /\ wf.clock < MaxClock
          /\ fs' = RemoveFile(fs, monitorScreenPng)
          /\ \/ wf' = TickSkipped(wf)
             \/ wf' = TickTemplateFailed(wf)
             \/ wf' = TickAbsent(wf)
             \/ \E delay \in SendDelays :
                   \/ wf' = TickFound(wf, delay, FALSE, NotFound)
                   \/ \E accept \in {NotFound} \cup {Found(p[1], p[2]) : p \in Spots} :
                         wf' = TickFound(wf, delay, TRUE, accept)
    /\ UNCHANGED <<now, arrivals, bufferMap, bufs, timers, runs, matchVars, locking, server>>

NextWorkflow ==
    \/ WfStart
    \/ WfFindAndClick
    \/ WfPasteAndSubmit
    \/ WfPasteImage
    \/ WfCaptionAndSubmit
    \/ WfAwait
    \/ WfMonitor

InitWorkflow ==
    /\ AggIdle
    /\ locking = NoLocking
    /\ server = NoServer
    /\ screenImg = NoImage
    /\ tmplImg = NoImage
    /\ match = Pending
    /\ wf \in Calls

SpecWorkflow == InitWorkflow /\ [][NextWorkflow]_vars

\* case <-waitTimeout of phase 1 and case <-timeout of phase 2: the receives
\* that the two time.After timers make ready
AwaitCeiling == WfAwait /\ wf'.exit = "await_timeout"
SafetyCeiling == WfMonitor /\ wf'.exit = "safety_timeout"

\* the goroutine of the call is scheduled and the external commands it waits
\* for return, so every straight-line step is taken; a timer that has expired
\* keeps its channel ready, so a select that is reached again and again
\* eventually takes that case
FairWorkflow ==
    /\ WF_vars(WfStart)
    /\ WF_vars(WfFindAndClick)
    /\ WF_vars(WfPasteAndSubmit)
    /\ WF_vars(WfPasteImage)
    /\ WF_vars(WfCaptionAndSubmit)
    /\ WF_vars(AwaitCeiling)
    /\ WF_vars(SafetyCeiling)

SpecWorkflowFair == InitWorkflow /\ [][NextWorkflow]_vars /\ FairWorkflow

(***************************************************************************)
(* Specification of the tolerance: a 1 x 1 template of colour Base and a   *)
(* 2 x 2 opaque screen whose top-left pixel differs from Base by any of    *)
(* Deltas per colour channel, of either representation.  The top-left      *)
(* position is the one candidate position of these inputs.                 *)
(***************************************************************************)
Base == <<100, 100, 100, 255>>

Deltas == {-30, -29, 0, 29, 30, 31, 32}

Shade(dr, dg, db) == <<Base[1] + dr, Base[2] + dg, Base[3] + db, Base[4]>>

ShadedScreens ==
    {[W |-> 2, H |-> 2, Pix |-> PixOf(<<Shade(dr, dg, db), Base, Base, Base>>), packed |-> p] :
        dr \in Deltas, dg \in Deltas, db \in Deltas, p \in BOOLEAN}

BaseTemplates == {[W |-> 1, H |-> 1, Pix |-> Base, packed |-> p] : p \in BOOLEAN}

InitTolerance ==
    /\ AggIdle
    /\ wf = NoWorkflow
    /\ locking = NoLocking
    /\ server = NoServer
    /\ screenImg \in ShadedScreens
    /\ tmplImg \in BaseTemplates
    /\ match = Pending

SpecTolerance == InitTolerance /\ [][NextMatch]_vars

(***************************************************************************)
(* The aggregator statement by statement (main.go 211-315): bufferLock is   *)
(* a variable, every handleMessage call is a goroutine that locks, does its *)
(* bookkeeping and unlocks on return, and a timer callback locks, drains,   *)
(* unlocks, then sorts the drained slice in place, downloads, and starts    *)
(* the run goroutine.  The drained slice shares its array with buf.Messages *)
(* (the drain copies the slice header only), so it is read through the      *)
(* buffer instance.  The clock is left out: an armed timer may expire at    *)
(* any moment.  locking.unlocked collects the accesses to a buffer's        *)
(* message array made without bufferLock.                                   *)
(***************************************************************************)
MaxCalls == 2          \* handleMessage is called at most MaxCalls times

Nobody == <<"none", 0>>
HandlerG(k) == <<"handler", k>>
CallbackG(t) == <<"callback", t>>
RunG(r) == <<"run", r>>

Called == {locking.handlers[k].msg.ID : k \in 1..Len(locking.handlers)}

\* the goroutines other than g that still read or write the array of buffer b
\* without the lock: callbacks between their drain and the start of their run,
\* and runs that have not returned (their status callback reads messages[0])
OtherUsers(g, b) ==
    ({CallbackG(t) : t \in {u \in 1..Len(timers) :
                               timers[u].buf = b /\ timers[u].st \in {"drained", "sorted"}}}
     \cup {RunG(r) : r \in {q \in 1..Len(runs) :
                               timers[runs[q].timer].buf = b /\ runs[q].pc # "done"}})
    \ {g}

\* an access to the message array of buffer b by goroutine g; shared: another
\* goroutine is using the same array without the lock at that moment
Access(g, b, op) ==
    [by |-> g, buf |-> b, op |-> op, held |-> locking.holder = g,
     shared |-> OtherUsers(g, b) # {}]

\* the arrays two unsynchronised goroutines can leave behind when one of them
\* sorts in place: any arrangement of the elements, some possibly twice
RaceOutcomes(messages) ==
    {a \in [1..Len(messages) -> {messages[i] : i \in 1..Len(messages)}] : TRUE}

\* the chat platform's poller calls handleMessage(m) in a goroutine of its own
LkReceive ==
    \E id \in MsgIds \ Called, c \in Chats, k \in ArrivalKinds :
        /\ Len(locking.handlers) < MaxCalls
        /\ locking' = [locking EXCEPT !.handlers = Append(@, [msg |-> Msg(id, c, k), pc |-> "lock"])]
        /\ UNCHANGED <<aggVars, matchVars, wf, server>>

\* bufferLock.Lock() of handleMessage
LkHandlerLock(k) ==
    /\ locking.handlers[k].pc = "lock"
    /\ locking.holder = Nobody
    /\ locking' = [locking EXCEPT !.holder = HandlerG(k), !.handlers[k].pc = "held"]
    /\ UNCHANGED <<aggVars, matchVars, wf, server>>

\* the body of handleMessage: registry lookup or insert, append, Stop, AfterFunc
LkHandlerBody(k) ==
    LET m == locking.handlers[k].msg
        chatID == chatIDOf(m)
        exists == bufferMap[chatID] # 0
        b == IF exists THEN bufferMap[chatID] ELSE Len(bufs) + 1
        heap == IF exists THEN bufs ELSE Append(bufs, [Messages |-> <<>>, Timer |-> 0])
        t == Len(timers) + 1
    IN  /\ locking.handlers[k].pc = "held"
        /\ arrivals' = Append(arrivals, [msg |-> m, at |-> now])
        /\ bufferMap' = [bufferMap EXCEPT ![chatID] = b]
        /\ bufs' = [heap EXCEPT ![b].Messages = Append(@, m), ![b].Timer = t]
        /\ timers' = Append(StopTimer(timers, heap[b].Timer),
                            [chatID |-> chatID, buf |-> b, deadline |-> now + Window,
                             st |-> "armed", messages |-> <<>>])
        /\ locking' = [locking EXCEPT !.handlers[k].pc = "unlock"]
        /\ UNCHANGED <<now, runs, fs, matchVars, wf, server>>

\* the deferred bufferLock.Unlock() of handleMessage
LkHandlerUnlock(k) ==
    /\ locking.handlers[k].pc = "unlock"
    /\ locking' = [locking EXCEPT !.holder = Nobody, !.handlers[k].pc = "returned"]
    /\ UNCHANGED <<aggVars, matchVars, wf, server>>

\* the runtime expires an armed timer and starts its callback in a goroutine
LkTimerExpire(t) ==
    /\ timers[t].st = "armed"
    /\ timers' = [timers EXCEPT ![t].st = "fired"]
    /\ UNCHANGED <<now, arrivals, bufferMap, bufs, runs, fs, matchVars, wf, locking, server>>

\* bufferLock.Lock() of the callback
LkCallbackLock(t) ==
    /\ timers[t].st = "fired"
    /\ locking.holder = Nobody
    /\ locking' = [locking EXCEPT !.holder = CallbackG(t)]
    /\ timers' = [timers EXCEPT ![t].st = "locked"]
    /\ UNCHANGED <<now, arrivals, bufferMap, bufs, runs, fs, matchVars, wf, server>>

\* messages := buf.Messages; delete(bufferMap, chatID); bufferLock.Unlock()
LkCallbackDrain(t) ==
    /\ timers[t].st = "locked"
    /\ timers' = [timers EXCEPT ![t].st = "drained",
                                ![t].messages = bufs[timers[t].buf].Messages]
    /\ bufferMap' = [bufferMap EXCEPT ![timers[t].chatID] = 0]
    /\ locking' = [locking EXCEPT !.holder = Nobody]
    /\ UNCHANGED <<now, arrivals, bufs, runs, fs, matchVars, wf, server>>

\* if len(messages) == 0 { return }; sort.Slice(messages, ...): in place, on the
\* array of the buffer; unsynchronised with another user of the array it is a
\* data race
LkCallbackSort(t) ==
    LET b == timers[t].buf
        access == Access(CallbackG(t), b, "sort")
    IN  /\ timers[t].st = "drained"
        /\ IF NoMessages(bufs[b].Messages)
           THEN /\ timers' = [timers EXCEPT ![t].st = "done"]
                /\ UNCHANGED <<bufs, locking>>
           ELSE /\ timers' = [timers EXCEPT ![t].st = "sorted"]
                /\ locking' = [locking EXCEPT !.unlocked = @ \cup {access}]
                /\ \E sorted \in (IF access.shared THEN RaceOutcomes(bufs[b].Messages) ELSE {})
                                 \cup {SortByID(bufs[b].Messages)} :
                      bufs' = [bufs EXCEPT ![b].Messages = sorted]
        /\ UNCHANGED <<now, arrivals, bufferMap, runs, fs, matchVars, wf, server>>

\* the loop over messages with its downloads, the composition, go func()
LkCallbackCollect(t) ==
    LET b == timers[t].buf
        access == Access(CallbackG(t), b, "range")
    IN  /\ timers[t].st = "sorted"
        /\ timers' = [timers EXCEPT ![t].st = "done"]
        /\ locking' = [locking EXCEPT !.unlocked = @ \cup {access}]
        /\ \E ok \in DownloadOutcomes(bufs[b].Messages) :
              LET messages == bufs[b].Messages
                  imagePaths == ImagePaths(messages, timers[t].chatID, ok, Len(messages))
                  fullText == Join(TxtParts(messages, Len(messages)))
                  batch == [messages |-> messages,
                            imagePaths |-> imagePaths,
                            fullText |-> fullText,
                            content |-> ContentWithContext(messages[1].Chat, fullText, imagePaths),
                            variant |-> Variant(imagePaths)]
              IN  /\ runs' = Append(runs, [timer |-> t,
                                           chatID |-> timers[t].chatID,
                                           firedAt |-> timers[t].deadline,
                                           batch |-> batch,
                                           downloaded |-> ok,
                                           pc |-> "start",
                                           exit |-> "",
                                           notFoundCount |-> 0])
                  /\ fs' = WriteAll(fs, imagePaths, t)
        /\ UNCHANGED <<now, arrivals, bufferMap, bufs, matchVars, wf, server>>

\* the run goroutine: the Workflow Orchestrator call, whose status callback
\* sends to messages[0].Sender, and the deferred removal of the downloads
LkRun(r) ==
    /\ runs[r].pc = "start"
    /\ runs' = [runs EXCEPT ![r].pc = "done"]
    /\ fs' = RemoveAll(fs, runs[r].batch.imagePaths)
    /\ locking' = [locking EXCEPT !.unlocked =
                      @ \cup {Access(RunG(r), timers[runs[r].timer].buf, "sender")}]
    /\ UNCHANGED <<now, arrivals, bufferMap, bufs, timers, matchVars, wf, server>>

NextLock ==
    \/ LkReceive
    \/ \E k \in 1..Len(locking.handlers) : LkHandlerLock(k)
    \/ \E k \in 1..Len(locking.handlers) : LkHandlerBody(k)
    \/ \E k \in 1..Len(locking.handlers) : LkHandlerUnlock(k)
    \/ \E t \in 1..Len(timers) : LkTimerExpire(t)
    \/ \E t \in 1..Len(timers) : LkCallbackLock(t)
    \/ \E t \in 1..Len(timers) : LkCallbackDrain(t)
    \/ \E t \in 1..Len(timers) : LkCallbackSort(t)
    \/ \E t \in 1..Len(timers) : LkCallbackCollect(t)
    \/ \E r \in 1..Len(runs) : LkRun(r)

InitLock ==
    /\ AggIdle
    /\ screenImg = NoImage
    /\ tmplImg = NoImage
    /\ match = Pending
    /\ wf = NoWorkflow
    /\ server = NoServer
    /\ locking = [holder |-> Nobody, handlers |-> <<>>, unlocked |-> {}]

SpecLock == InitLock /\ [][NextLock]_vars

(***************************************************************************)
(* The protocol server (package mcp: Server.Start, handleRequest,          *)
(* writeOutput).  Start scans standard input line by line; a line that     *)
(* decodes is handled in a goroutine of its own; a response is marshalled  *)
(* and written to standard output under the mutex s.mu.  A line is written *)
(* in two pieces (the operating system may take a long line in several     *)
(* writes).  An id is kept as the JSON token it is written with: null (or  *)
(* absent), a string, or the integer hi * 2^53 + lo.                       *)
(***************************************************************************)
MaxLines == 2          \* the input holds up to MaxLines lines

IdNull == [t |-> "null", s |-> "", hi |-> 0, lo |-> 0]
IdString(s) == [t |-> "str", s |-> s, hi |-> 0, lo |-> 0]
IdNumber(hi, lo) == [t |-> "num", s |-> "", hi |-> hi, lo |-> lo]

\* the ids of the requests sent: none, a string, 7, 2^53 + 1 and 2^53 + 2
Ids == {IdNull, IdString("a"), IdNumber(0, 7), IdNumber(1, 1), IdNumber(1, 2)}

\* json.Unmarshal into ID interface{}: a number becomes the nearest float64
\* (53 bits of mantissa, ties to the even mantissa).  From 2^53 to 2^54 the
\* float64 values are the even integers.
Float64(hi, lo) ==
    IF hi = 0 \/ lo % 2 = 0 THEN [hi |-> hi, lo |-> lo]
    ELSE IF ((lo - 1) \div 2) % 2 = 0 THEN [hi |-> hi, lo |-> lo - 1]
    ELSE [hi |-> hi, lo |-> lo + 1]

UnmarshalId(id) ==
    IF id.t = "num"
    THEN [t |-> "float64", s |-> "", hi |-> Float64(id.hi, id.lo).hi, lo |-> Float64(id.hi, id.lo).lo]
    ELSE IF id.t = "str" THEN [t |-> "string", s |-> id.s, hi |-> 0, lo |-> 0]
    ELSE [t |-> "nil", s |-> "", hi |-> 0, lo |-> 0]

\* json.Marshal of ID interface{}: a float64 that is an integer below 1e21 is
\* written in full, a string as a string, nil as null
MarshalId(v) ==
    IF v.t = "float64" THEN IdNumber(v.hi, v.lo)
    ELSE IF v.t = "string" THEN IdString(v.s)
    ELSE IdNull

Methods == {"initialize", "tools/list", "tools/call", "notifications/initialized", "ping"}

\* params of tools/call: absent, not of the expected shape, a call of
\* reply_to_telegram, a call of another tool
ParamKinds == {"none", "invalid", "reply_to_telegram", "other_tool"}

\* the lines of the input: text that is not a JSON object, or a request
Garbage == [json |-> FALSE, method |-> "", params |-> "none", id |-> IdNull]

RequestLine(method, params, id) ==
    [json |-> TRUE, method |-> method, params |-> params, id |-> id]

Lines ==
    {Garbage}
    \cup {RequestLine(mt, "none", id) : mt \in Methods \ {"tools/call"}, id \in Ids}
    \cup {RequestLine("tools/call", pk, id) : pk \in ParamKinds, id \in Ids}

\* json.Unmarshal(line, &req)
UnmarshalRequest(line) ==
    [Method |-> line.method, Params |-> line.params, ID |-> UnmarshalId(line.id)]

NoResult == ""
NoError == 0

\* the switch of handleRequest: the (response, err) pair; sent is the outcome
\* of s.TelegramFunc (TRUE: no error), initialized whether TelegramFunc # nil
Respond(req, initialized, sent) ==
    CASE req.Method = "initialize" -> [result |-> "serverInfo", error |-> NoError]
      [] req.Method = "tools/list" -> [result |-> "tools", error |-> NoError]
      [] req.Method = "tools/call" ->
            IF req.Params \in {"none", "invalid"} THEN [result |-> NoResult, error |-> -32602]
            ELSE IF req.Params = "reply_to_telegram"
                 THEN IF ~initialized THEN [result |-> NoResult, error |-> -32000]
                      ELSE IF sent THEN [result |-> "content", error |-> NoError]
                      ELSE [result |-> NoResult, error |-> -32000]
            ELSE [result |-> NoResult, error |-> -32601]
      [] OTHER -> [result |-> NoResult, error |-> -32601]

\* json.Marshal(JSONRPCResponse{...}): result and error are left out when empty
MarshalResponse(id, r) == [id |-> MarshalId(id), result |-> r.result, error |-> r.error]

\* scanner.Scan(); json.Unmarshal; go s.handleRequest(req): a line that does
\* not decode is logged and skipped
SrvScan ==
    /\ server.pc = "serving"
    /\ server.input # <<>>
    /\ LET line == Head(server.input)
           n == server.scanned + 1
       IN  server' = [server EXCEPT
                !.input = Tail(@),
                !.scanned = n,
                !.reqs = IF line.json
                         THEN Append(@, [line |-> n, sent |-> line,
                                         req |-> UnmarshalRequest(line),
                                         pc |-> "handle",
                                         resp |-> MarshalResponse(UnmarshalId(IdNull),
                                                     [result |-> NoResult, error |-> NoError])])
                         ELSE @]
    /\ UNCHANGED <<aggVars, matchVars, wf, locking>>

\* handleRequest up to json.Marshal: notifications/initialized returns, every
\* other method builds its response
SrvHandle(g) ==
    /\ server.reqs[g].pc = "handle"
    /\ \E sent \in BOOLEAN :
          LET req == server.reqs[g].req
          IN  server' =
                IF req.Method = "notifications/initialized"
                THEN [server EXCEPT !.reqs[g].pc = "done"]
                ELSE [server EXCEPT
                         !.reqs[g].pc = "lock",
                         !.reqs[g].resp = MarshalResponse(req.ID,
                                              Respond(req, server.initialized, sent))]
    /\ UNCHANGED <<aggVars, matchVars, wf, locking>>

\* writeOutput: s.mu.Lock()
SrvLock(g) ==
    /\ server.reqs[g].pc = "lock"
    /\ server.mu = 0
    /\ server' = [server EXCEPT !.mu = g, !.reqs[g].pc = "write"]
    /\ UNCHANGED <<aggVars, matchVars, wf, locking>>

\* writeOutput: fmt.Printf, the first piece of the line
SrvWrite(g) ==
    /\ server.reqs[g].pc = "write"
    /\ server' = [server EXCEPT
                     !.out = Append(@, [from |-> g, last |-> FALSE, resp |-> server.reqs[g].resp]),
                     !.reqs[g].pc = "newline"]
    /\ UNCHANGED <<aggVars, matchVars, wf, locking>>

\* writeOutput: the rest of the line with its newline, and the deferred Unlock
SrvNewlineAndUnlock(g) ==
    /\ server.reqs[g].pc = "newline"
    /\ server' = [server EXCEPT
                     !.out = Append(@, [from |-> g, last |-> TRUE, resp |-> server.reqs[g].resp]),
                     !.mu = IF @ = g THEN 0 ELSE @,
                     !.reqs[g].pc = "done"]
    /\ UNCHANGED <<aggVars, matchVars, wf, locking>>

NextServer ==
    \/ SrvScan
    \/ \E g \in 1..Len(server.reqs) : SrvHandle(g)
    \/ \E g \in 1..Len(server.reqs) : SrvLock(g)
    \/ \E g \in 1..Len(server.reqs) : SrvWrite(g)
    \/ \E g \in 1..Len(server.reqs) : SrvNewlineAndUnlock(g)

\* NewServer(tgFunc); Start() on any input of up to MaxLines lines
InitServer ==
    /\ AggIdle
    /\ screenImg = NoImage
    /\ tmplImg = NoImage
    /\ match = Pending
    /\ wf = NoWorkflow
    /\ locking = NoLocking
    /\ \E n \in 1..MaxLines : \E input \in [1..n -> Lines], initialized \in BOOLEAN :
          server = [pc |-> "serving", initialized |-> initialized, input |-> input,
                    scanned |-> 0, reqs |-> <<>>, mu |-> 0, out |-> <<>>]

SpecServer == InitServer /\ [][NextServer]_vars

NextAgg ==
    \/ Deliver
    \/ Tick
    \/ \E t \in 1..Len(timers) : TimerFire(t)
    \/ \E t \in 1..Len(timers) : Drain(t)
    \/ \E t \in 1..Len(timers) : Process(t)

Init == InitAgg

Next == NextAgg

Spec == Init /\ [][Next]_vars


(***************************************************************************)
(* Claims about the aggregator (specification Spec)                        *)
(***************************************************************************)
TimerIds == 1..Len(timers)
RunIds == 1..Len(runs)

\* the arrivals of conversation c, in the order of the handleMessage calls
ChatArrivals(c) == SelectSeq(arrivals, LAMBDA a : a.msg.Chat = c)

\* no timer of conversation c is armed and no callback of it is under way
Settled(c) ==
    \A t \in TimerIds : timers[t].chatID = c => timers[t].st \in {"stopped", "done"}

\* ca[i..j] is a maximal run of arrivals each less than Window after the previous one
IsBurst(ca, i, j) ==
    /\ i <= j
    /\ \A k \in i..(j - 1) : ca[k + 1].at - ca[k].at < Window
    /\ i = 1 \/ ca[i].at - ca[i - 1].at >= Window
    /\ j = Len(ca) \/ ca[j + 1].at - ca[j].at >= Window

\* the sequence identifiers of ca[i..j] ascend: arrival order is sequence order
Ascending(ca, i, j) == \A k \in i..(j - 1) : ca[k].msg.ID < ca[k + 1].msg.ID

\* the runs whose batch holds a message of ca[i..j]
BatchesOf(ca, i, j) ==
    {r \in RunIds : \E k \in i..j : \E n \in 1..Len(runs[r].batch.messages) :
        runs[r].batch.messages[n].ID = ca[k].msg.ID}

\* ca[i..j] appears in the batch, contiguous and in arrival order
HoldsInOrder(batch, ca, i, j) ==
    \E off \in 0..Len(batch.messages) :
        /\ off + (j - i + 1) <= Len(batch.messages)
        /\ \A k \in i..j : batch.messages[off + k - i + 1] = ca[k].msg

\* C1 (debounce coalescing): once a conversation has settled, every burst of its
\* messages (each less than Window after the previous one, delivered in sequence
\* order) has produced exactly one batch, which holds the burst in arrival order
\* and fired one Window after the burst's last arrival.
C1_DebounceCoalescing ==
    \A c \in Chats : Settled(c) =>
        LET ca == ChatArrivals(c)
        IN  \A i \in 1..Len(ca), j \in 1..Len(ca) :
                (IsBurst(ca, i, j) /\ Ascending(ca, i, j)) =>
                    \E r \in RunIds :
                        /\ BatchesOf(ca, i, j) = {r}
                        /\ HoldsInOrder(runs[r].batch, ca, i, j)
                        /\ runs[r].firedAt = ca[j].at + Window

\* C2 (independent conversations): no batch, drained or composed, holds messages
\* of two different conversation ids.
C2_IndependentConversations ==
    /\ \A r \in RunIds : \A i \in 1..Len(runs[r].batch.messages) :
           runs[r].batch.messages[i].Chat = runs[r].batch.messages[1].Chat
    /\ \A t \in TimerIds : \A i \in 1..Len(timers[t].messages) :
           timers[t].messages[i].Chat = timers[t].messages[1].Chat

\* C2 witness: messages of two conversations were delivered interleaved and both
\* conversations have had a batch composed, one of them of two messages.
C2_Witness ==
    /\ Len(arrivals) >= 3
    /\ arrivals[1].msg.Chat # arrivals[2].msg.Chat
    /\ arrivals[3].msg.Chat = arrivals[1].msg.Chat
    /\ \E r1 \in RunIds, r2 \in RunIds :
           /\ runs[r1].chatID # runs[r2].chatID
           /\ Len(runs[r1].batch.messages) = 2

RunsOf(t) == {r \in RunIds : runs[r].timer = t}

\* C3 (one run per drain): a callback that has drained and finished has started
\* exactly one run, of one of the two variants; a timer whose callback has not
\* finished has started none; and every run was started by a callback.
C3_OneRunPerDrain ==
    /\ \A t \in TimerIds :
           IF timers[t].st = "done" THEN Cardinality(RunsOf(t)) = 1 ELSE RunsOf(t) = {}
    /\ \A r \in RunIds :
           /\ runs[r].timer \in TimerIds
           /\ runs[r].batch.variant \in {"FullWorkflowMediaGroup", "FullWorkflow"}

\* C3 witness: two callbacks have drained the same buffer instance (a timer that
\* had expired before it could be stopped, and its successor), and a third timer
\* was stopped.
C3_Witness ==
    \E t1 \in TimerIds, t2 \in TimerIds, t3 \in TimerIds :
        /\ t1 # t2
        /\ timers[t1].buf = timers[t2].buf
        /\ timers[t1].st = "done"
        /\ timers[t2].st = "done"
        /\ timers[t3].st = "stopped"

LiveTimers(c) ==
    {t \in TimerIds : timers[t].chatID = c /\ timers[t].st \in {"armed", "fired"}}

\* C4 (timer invariant): at most one live timer (armed, or expired with its
\* callback not yet drained) per conversation id.
C4_TimerInvariant == \A c \in Chats : Cardinality(LiveTimers(c)) <= 1

\* buffer instance b has been drained by a callback
Retired(b) ==
    \E t \in TimerIds : timers[t].buf = b /\ timers[t].st \in {"drained", "done"}

\* C5 (atomic drain-and-remove): the step in which a callback takes the messages
\* of its buffer removes that very buffer from the registry, and no message is
\* appended to a buffer instance that has been drained.
C5_AtomicDrainAndRemove ==
    [][/\ \A t \in TimerIds :
              (timers[t].st = "fired" /\ timers'[t].st = "drained") =>
                  /\ bufferMap[timers[t].chatID] = timers[t].buf
                  /\ bufferMap'[timers[t].chatID] = 0
                  /\ timers'[t].messages = bufs[timers[t].buf].Messages
       /\ \A b \in 1..Len(bufs) : Retired(b) => bufs'[b].Messages = bufs[b].Messages
      ]_vars

\* C7 as claimed (dispatch rule): a run is of the multi-attachment variant exactly
\* when some message of its batch carries an attachment.
C7_DispatchRule ==
    \A r \in RunIds :
        (runs[r].batch.variant = "FullWorkflowMediaGroup") <=>
            \E i \in 1..Len(runs[r].batch.messages) : HasFile(runs[r].batch.messages[i])

\* C7 amended (dispatch rule): a run is of the multi-attachment variant exactly
\* when the attachment of some message of its batch was downloaded without
\* error; a batch none of whose downloads succeeded runs the text-only variant.
C7_DispatchRuleAmended ==
    \A r \in RunIds :
        /\ runs[r].batch.variant \in {"FullWorkflowMediaGroup", "FullWorkflow"}
        /\ (runs[r].batch.variant = "FullWorkflowMediaGroup") <=>
              \E i \in 1..Len(runs[r].batch.messages) :
                  HasFile(runs[r].batch.messages[i]) /\ runs[r].downloaded[i]

\* C7 witness: one run of each variant, the text-only one for a batch that
\* carries an attachment whose download failed.
C7_Witness ==
    \E r1 \in RunIds, r2 \in RunIds :
        /\ runs[r1].batch.variant = "FullWorkflowMediaGroup"
        /\ runs[r2].batch.variant = "FullWorkflow"
        /\ \E i \in 1..Len(runs[r2].batch.messages) :
               HasFile(runs[r2].batch.messages[i]) /\ ~runs[r2].downloaded[i]

(***************************************************************************)
(* Claims about the runs (specification SpecRun)                           *)
(***************************************************************************)
FilesOf(r) == {f \in fs : f.owner = Owner(r)}

FragOf(m) == IF m.Text # <<>> THEN m.Text ELSE m.Caption

\* the newline-join of the fragments of the messages, in order
RECURSIVE NewlineJoined(_)
NewlineJoined(messages) ==
    IF messages = <<>> THEN <<>>
    ELSE LET rest == NewlineJoined(Tail(messages))
             m == Head(messages)
         IN  IF m.Text = <<>> /\ m.Caption = <<>> THEN rest
             ELSE IF \A i \in 2..Len(messages) :
                         messages[i].Text = <<>> /\ messages[i].Caption = <<>>
                  THEN FragOf(m)
                  ELSE FragOf(m) \o <<NL>> \o rest

\* the positions (in batch order) of the messages the attachment list refers to
PathPositions(batch) == [k \in 1..Len(batch.imagePaths) |-> batch.imagePaths[k][3] + 1]

Positions(n) == [i \in 1..n |-> i]

\* C8 as claimed (composition rule): the text block is the newline-join of the
\* messages' fragments in batch order, and the attachment list holds, in the same
\* order, the attachment of every message that has one.
C8_CompositionRule ==
    \A r \in RunIds :
        LET batch == runs[r].batch
        IN  /\ batch.fullText = NewlineJoined(batch.messages)
            /\ PathPositions(batch) =
                   SelectSeq(Positions(Len(batch.messages)),
                             LAMBDA i : HasFile(batch.messages[i]))

\* C8 amended (composition rule): the text block is the newline-join of the
\* messages' fragments in batch order, and the attachment list holds, in the same
\* order, the downloaded file of every message whose attachment was downloaded
\* without error; an attachment whose download failed is left out.
C8_CompositionRuleAmended ==
    \A r \in RunIds :
        LET batch == runs[r].batch
        IN  /\ batch.fullText = NewlineJoined(batch.messages)
            /\ PathPositions(batch) =
                   SelectSeq(Positions(Len(batch.messages)),
                             LAMBDA i : HasFile(batch.messages[i]) /\ runs[r].downloaded[i])

\* C8 witness: a composed batch of two messages, the first with text and a
\* caption, the second with a caption only, and with one attachment downloaded
\* and one that failed.
C8_Witness ==
    \E r \in RunIds :
        LET batch == runs[r].batch
        IN  /\ Len(batch.messages) = 2
            /\ batch.messages[1].Text # <<>> /\ batch.messages[1].Caption # <<>>
            /\ batch.messages[2].Text = <<>> /\ batch.messages[2].Caption # <<>>
            /\ \E i \in 1..2, j \in 1..2 :
                   /\ HasFile(batch.messages[i]) /\ runs[r].downloaded[i]
                   /\ HasFile(batch.messages[j]) /\ ~runs[r].downloaded[j]

\* the arrangements of a sequence
Arrangements(seq) ==
    {[i \in 1..Len(seq) |-> seq[f[i]]] :
        f \in {g \in [1..Len(seq) -> 1..Len(seq)] :
                  \A i \in 1..Len(seq), j \in 1..Len(seq) : i # j => g[i] # g[j]}}

\* C9 (order by sequence identifier): the messages of a composed batch ascend by
\* sequence identifier, and the batch is the one composed from any other order
\* of appending the same messages.
C9_SortedBySequenceId ==
    \A r \in RunIds :
        LET batch == runs[r].batch
            drained == timers[runs[r].timer].messages
        IN  /\ \A i \in 1..(Len(batch.messages) - 1) :
                   batch.messages[i].ID < batch.messages[i + 1].ID
            /\ {batch.messages[i] : i \in 1..Len(batch.messages)} =
                   {drained[i] : i \in 1..Len(drained)}
            /\ \A other \in Arrangements(drained) :
                   Compose(other, runs[r].chatID, runs[r].downloaded) = batch

\* C9 witness: a batch was composed from messages that had been appended in
\* descending order of sequence identifier, with text fragments and attachments.
C9_Witness ==
    \E r \in RunIds :
        LET drained == timers[runs[r].timer].messages
        IN  /\ Len(drained) = MaxBatch
            /\ \A i \in 1..(Len(drained) - 1) : drained[i].ID > drained[i + 1].ID
            /\ Len(runs[r].batch.imagePaths) > 0
            /\ runs[r].batch.fullText # <<>>


(***************************************************************************)
(* Claims about the template matcher (specification SpecMatch)             *)
(***************************************************************************)
\* the template fits at (x0, y0) and the screen holds an exact copy of it there
ExactCopyAt(s, t, x0, y0) ==
    /\ x0 + t.W <= s.W
    /\ y0 + t.H <= s.H
    /\ \A y \in 0..(t.H - 1) : \A x \in 0..(t.W - 1) : \A c \in 0..3 :
           Byte(s.Pix, (y0 + y) * Stride(s) + (x0 + x) * 4 + c) =
               Byte(t.Pix, y * Stride(t) + x * 4 + c)

\* (x, y) is (x0, y0) or comes before it in row-major scan order
NotLater(x, y, x0, y0) == y < y0 \/ (y = y0 /\ x <= x0)

\* C10 (match correctness): when the screen holds an exact copy of the template
\* at a position where the template fully fits (the right and bottom edges and
\* a template as large as the screen included), findImageInImage returns found,
\* at that position or at an earlier position that holds a copy too.
C10_MatchCorrectness ==
    match.done =>
        \A x0 \in 0..(screenImg.W - 1), y0 \in 0..(screenImg.H - 1) :
            ExactCopyAt(screenImg, tmplImg, x0, y0) =>
                /\ match.found
                /\ NotLater(match.x, match.y, x0, y0)
                /\ ExactCopyAt(screenImg, tmplImg, match.x, match.y)

\* the same, for the copies that do not touch the right or the bottom edge of
\* the screen (the candidate positions the scan loops visit)
C10_InteriorCopies ==
    match.done =>
        \A x0 \in 0..(screenImg.W - 1), y0 \in 0..(screenImg.H - 1) :
            (/\ ExactCopyAt(screenImg, tmplImg, x0, y0)
             /\ x0 + tmplImg.W < screenImg.W
             /\ y0 + tmplImg.H < screenImg.H) =>
                /\ match.found
                /\ NotLater(match.x, match.y, x0, y0)
                /\ ExactCopyAt(screenImg, tmplImg, match.x, match.y)

\* the per-channel threshold of the tolerance on the 8-bit scale
Threshold == 30

\* the template fits at (x0, y0)
FitsAt(s, t, x0, y0) == x0 >= 0 /\ y0 >= 0 /\ x0 + t.W <= s.W /\ y0 + t.H <= s.H

\* the fitting positions of the template in the screen
Fitting(s, t) == {p \in (0..(s.W - 1)) \X (0..(s.H - 1)) : FitsAt(s, t, p[1], p[2])}

\* the difference of channel c between template pixel (x, y) and the screen
\* pixel at that offset from (x0, y0)
ChannelDiff(s, t, x0, y0, x, y, c) ==
    abs(Byte(s.Pix, (y0 + y) * Stride(s) + (x0 + x) * 4 + c) -
        Byte(t.Pix, y * Stride(t) + x * 4 + c))

\* the tolerance predicate: the template fits at (x0, y0) and every colour
\* channel of every template pixel is within the tolerance there
WithinToleranceAt(s, t, x0, y0) ==
    /\ FitsAt(s, t, x0, y0)
    /\ \A y \in 0..(t.H - 1) : \A x \in 0..(t.W - 1) : \A c \in 0..2 :
           ChannelDiff(s, t, x0, y0, x, y, c) < Threshold

\* (x, y) comes before (x0, y0) in row-major scan order
Earlier(x, y, x0, y0) == y < y0 \/ (y = y0 /\ x < x0)

\* C11 (first-found semantics): when findImageInImage returns found at (x, y),
\* every template pixel is within the tolerance of the screen pixel at its
\* offset from (x, y), and no fitting position earlier in row-major order
\* satisfies the tolerance predicate.
C11_FirstFound ==
    (match.done /\ match.found) =>
        /\ WithinToleranceAt(screenImg, tmplImg, match.x, match.y)
        /\ \A p \in Fitting(screenImg, tmplImg) :
               Earlier(p[1], p[2], match.x, match.y) =>
                   ~WithinToleranceAt(screenImg, tmplImg, p[1], p[2])

\* the same, for the earlier positions the scan loops visit: the returned
\* position is the first of the examined candidates that satisfies the predicate
C11_FirstAmongExamined ==
    (match.done /\ match.found) =>
        /\ WithinToleranceAt(screenImg, tmplImg, match.x, match.y)
        /\ <<match.x, match.y>> \in Candidates(screenImg, tmplImg)
        /\ \A p \in Candidates(screenImg, tmplImg) :
               Earlier(p[1], p[2], match.x, match.y) =>
                   ~WithinToleranceAt(screenImg, tmplImg, p[1], p[2])

\* C13 (no match is a value): when no fitting position satisfies the tolerance
\* predicate findImageInImage returns not found, (-1, -1); a template larger
\* than the screen along either axis has no candidate position and is not
\* found; and every buffer offset read at a candidate position is in range.
C13_NoMatchIsAValue ==
    match.done =>
        /\ (\A p \in Fitting(screenImg, tmplImg) :
                ~WithinToleranceAt(screenImg, tmplImg, p[1], p[2])) =>
               match = [done |-> TRUE, x |-> -1, y |-> -1, found |-> FALSE]
        /\ (tmplImg.W > screenImg.W \/ tmplImg.H > screenImg.H) =>
               /\ Candidates(screenImg, tmplImg) = {}
               /\ ~match.found
        /\ \A p \in Candidates(screenImg, tmplImg) :
               /\ FitsAt(screenImg, tmplImg, p[1], p[2])
               /\ ScreenReads(screenImg, tmplImg, p[1], p[2])
                      \subseteq 0..(Len(screenImg.Pix) - 1)
               /\ TemplateReads(tmplImg) \subseteq 0..(Len(tmplImg.Pix) - 1)

\* C13 witness: the template is wider than the screen but not taller, the screen
\* shows the template's colour, and findImageInImage has returned not found.
C13_Witness ==
    /\ match.done
    /\ ~match.found
    /\ tmplImg.W > screenImg.W
    /\ tmplImg.H < screenImg.H
    /\ SubSeq(screenImg.Pix, 1, 4) = SubSeq(tmplImg.Pix, 1, 4)

\* C13 second witness: the template fits, candidate positions were examined,
\* none of the fitting positions satisfies the predicate, and the result is
\* not found.
C13_NoMatchExamined ==
    /\ match.done
    /\ ~match.found
    /\ Candidates(screenImg, tmplImg) # {}
    /\ \A p \in Fitting(screenImg, tmplImg) :
           ~WithinToleranceAt(screenImg, tmplImg, p[1], p[2])

(***************************************************************************)
(* Claims about the tolerance (specification SpecTolerance)                *)
(***************************************************************************)
\* the differences of the three colour channels at the top-left position
TopLeftDiffs == {ChannelDiff(screenImg, tmplImg, 0, 0, 0, 0, c) : c \in 0..2}

FastPath == screenImg.packed /\ tmplImg.packed

\* C12 (tolerance boundary): on the fast path and on the slow path alike, a
\* candidate position where every colour channel differs by exactly the
\* threshold minus one matches, and one where some channel differs by the
\* threshold or more does not match.
C12_ToleranceBoundary ==
    match.done =>
        /\ (TopLeftDiffs = {Threshold - 1}) =>
               match = [done |-> TRUE, x |-> 0, y |-> 0, found |-> TRUE]
        /\ (\E d \in TopLeftDiffs : d >= Threshold) => ~match.found

\* the boundary of the fast path: a position matches exactly when every channel
\* differs by less than Threshold
C12_FastPathBoundary ==
    (match.done /\ FastPath) =>
        (match.found <=> \A d \in TopLeftDiffs : d < Threshold)

\* the boundary of the slow path: a position matches exactly when no channel
\* differs by more than tol on the 16-bit scale, which on the 8-bit scale is a
\* difference of at most 31
C12_SlowPathBoundary ==
    (match.done /\ ~FastPath) =>
        /\ match.found <=> \A d \in TopLeftDiffs : d * 257 <= tol
        /\ match.found <=> \A d \in TopLeftDiffs : d <= Threshold + 1

(***************************************************************************)
(* Claims about one Workflow Orchestrator call (specification SpecWorkflow)*)
(***************************************************************************)
\* the number of trailing busy checks that did not find the indicator
RECURSIVE TrailingAbsent(_)
TrailingAbsent(checks) ==
    IF checks = <<>> \/ checks[Len(checks)] THEN 0
    ELSE 1 + TrailingAbsent(SubSeq(checks, 1, Len(checks) - 1))

\* C14 (monitor loop termination by streak): the busy-gone exit happens at the
\* tick on which the busy check has not found the indicator maxNotFound times in
\* a row, and not earlier: while the loop runs the streak counter is the number
\* of trailing absent checks and is below maxNotFound, and a check that finds
\* the indicator resets it to zero.  (A tick whose capture cannot be loaded
\* makes no busy check.)
C14_StreakTermination ==
    /\ wf.exit = "normal" =>
           /\ wf.pc = "done"
           /\ wf.tick.busy = "absent"
           /\ wf.tick.n = wf.clock
           /\ wf.checks = [k \in 1..maxNotFound |-> FALSE]
    /\ wf.pc = "monitor" =>
           /\ wf.notFoundCount = TrailingAbsent(wf.checks)
           /\ wf.notFoundCount < maxNotFound
           /\ wf.tick.busy = "found" => wf.notFoundCount = 0

\* C14 witness: the indicator was first found on the second tick (after a tick
\* without it), then absent on the next maxNotFound ticks, and the loop has
\* ended by the busy-gone exit on the last of them.
C14_Witness ==
    /\ wf.exit = "normal"
    /\ wf.lastPulseAt = 2
    /\ wf.polled
    /\ wf.clock = 2 + maxNotFound

\* C15 (status pulse rate): when the busy indicator has been found on every
\* tick for a duration D, the status callback has been invoked exactly
\* floor(D / pulseInterval) + 1 times over that duration.
C15_StatusPulseRate ==
    (wf.pc = "monitor" /\ wf.tick.busy = "found") =>
        wf.stretchPulses = ((wf.clock - wf.stretchStart) \div pulseInterval) + 1

\* the half of C15 that holds: never more than floor(D / pulseInterval) + 1
\* invocations over a presence of duration D
C15_NeverMoreFrequent ==
    (wf.pc = "monitor" /\ wf.tick.busy = "found") =>
        wf.stretchPulses <= ((wf.clock - wf.stretchStart) \div pulseInterval) + 1

\* and two consecutive invocations are never less than pulseInterval apart
C15_PulsesApart ==
    [][(wf.pc = "monitor" /\ wf'.lastPulseAt # wf.lastPulseAt) =>
           (wf.lastPulseAt = zeroTime \/ wf'.lastPulseAt - wf.lastPulseAt >= pulseInterval)
      ]_vars

\* the events of the log that satisfy P, in order
Logged(P(_)) == SelectSeq(wf.log, P)

IsStatus(e) == e.ev = "status"
IsKey(e) == e.ev = "key"
IsFind(e) == e.ev = "find"
IsMonitor(e) == e.ev = "monitor"
IsClick(e) == e.ev = "click"

\* no monitoring tick has been handled
NoMonitoring ==
    /\ wf.clock = 0
    /\ wf.tick = NoTick
    /\ wf.lastPulseAt = zeroTime

\* C16 (input surface not found): in every variant, when FindAndClick does not
\* locate the input surface the call has ended with exactly one status
\* callback, the diagnostic, after one search: no key press (paste or submit),
\* no click and no monitor loop, and nothing further can happen.
C16_InputNotFound ==
    wf.exit \in InputFailures =>
        /\ wf.pc = "done"
        /\ Logged(IsStatus) = <<InputNotFoundStatus>>
        /\ wf.log[Len(wf.log)] = InputNotFoundStatus
        /\ Len(Logged(IsFind)) = 1
        /\ Logged(IsKey) = <<>>
        /\ Logged(IsClick) = <<>>
        /\ Logged(IsMonitor) = <<>>
        /\ NoMonitoring
        /\ ~ENABLED NextWorkflow

\* C16 witness: a media group call with MaxImages images and a text has ended
\* because the input surface was not on the screen.
C16_Witness ==
    /\ wf.variant = "FullWorkflowMediaGroup"
    /\ wf.nImages = MaxImages
    /\ wf.hasText
    /\ wf.pc = "done"
    /\ wf.exit = "input_not_found"

\* C17 (clipboard failure aborts the run): in every variant, after a failed
\* clipboard-set operation there is no key press (paste or submit) and no
\* monitor loop.
C17_ClipboardFailureAborts ==
    \A k \in 1..Len(wf.log) :
        wf.log[k].ev = "clipboard_failed" =>
            /\ \A j \in (k + 1)..Len(wf.log) : ~IsKey(wf.log[j]) /\ ~IsMonitor(wf.log[j])
            /\ wf.pc \notin {"place", "await", "monitor"}
            /\ NoMonitoring

\* the same, for the two single-item variants
C17_SingleItemVariants ==
    wf.variant \in {"FullWorkflow", "FullWorkflowImage"} =>
        \A k \in 1..Len(wf.log) :
            wf.log[k].ev = "clipboard_failed" =>
                /\ wf.pc = "done"
                /\ wf.exit = "clipboard_failure"
                /\ Logged(IsKey) = <<>>
                /\ Logged(IsMonitor) = <<>>
                /\ Logged(IsFind) = <<>>
                /\ NoMonitoring

\* C18 (awaiting-busy ceiling): while the busy indicator is awaited, and when
\* the wait has ended by its ceiling, MonitorProcess has made no status
\* callback, no click and no key press, and the monitoring phase has not been
\* entered; the call ends there, with no error reported.
C18_AwaitingBusyCeiling ==
    (wf.pc = "await" \/ wf.exit = "await_timeout") =>
        /\ wf.log[Len(wf.log)] = MonitorStart
        /\ Len(Logged(IsMonitor)) = 1
        /\ NoMonitoring
        /\ wf.exit = "await_timeout" => (wf.pc = "done" /\ ~ENABLED NextWorkflow)

\* C18 witness: the busy indicator was polled for and not found, and the wait
\* has ended by its ceiling.
C18_Witness ==
    /\ wf.exit = "await_timeout"
    /\ wf.polled
    /\ wf.pc = "done"

\* a status that is none of the statuses of the other paths
IsTimedOutStatus(e) ==
    /\ e.ev = "status"
    /\ e \notin {ThinkingStatus, InputNotFoundStatus, ClipboardImageStatus, ClipboardTextStatus}

\* C19 (safety ceiling): when the monitoring phase has ended by its safety
\* ceiling the call is done, whether or not the busy indicator was present, and
\* a distinct timed-out status has been emitted through the status callback.
C19_SafetyCeiling ==
    wf.exit = "safety_timeout" =>
        /\ wf.pc = "done"
        /\ \/ Logged(IsTimedOutStatus) # <<>>
           \/ SelectSeq(wf.tick.events, IsTimedOutStatus) # <<>>

\* the half of C19 that holds: the safety ceiling ends the call
C19_ForcedDone ==
    wf.exit = "safety_timeout" => (wf.pc = "done" /\ ~ENABLED NextWorkflow)

\* C20 (accept click): the accept indicator is searched only on a tick on which
\* the busy indicator was found; when it is found that tick makes exactly one
\* click, at the matched location, and otherwise none; and after a tick on which
\* the busy indicator was found, with or without a click, the loop is still
\* running (until the safety ceiling) and the not-found streak is zero.
C20_AcceptClick ==
    wf.pc \in {"monitor", "done"} =>
        /\ wf.tick.searched => wf.tick.busy = "found"
        /\ wf.tick.accept.found => wf.tick.searched
        /\ SelectSeq(wf.tick.events, IsClick) =
               IF wf.tick.accept.found
               THEN <<[ev |-> "click", arg |-> "accept",
                       x |-> wf.tick.accept.x, y |-> wf.tick.accept.y]>>
               ELSE <<>>
        /\ wf.tick.busy = "found" =>
               /\ wf.notFoundCount = 0
               /\ wf.pc = "monitor" \/ wf.exit = "safety_timeout"

\* C20 witness: the accept indicator was found and clicked on a tick that
\* followed four ticks without the busy indicator, and the loop is running.
C20_Witness ==
    /\ wf.pc = "monitor"
    /\ wf.tick.accept.found
    /\ wf.checks = <<FALSE, FALSE, FALSE, FALSE, TRUE>>

\* a status callback made on the latest monitoring tick, or as the last thing
\* the call did outside the monitoring ticks
FailureReported ==
    \/ (wf.log # <<>> /\ IsStatus(wf.log[Len(wf.log)]) /\ NoMonitoring)
    \/ \E k \in 1..Len(wf.tick.events) :
           IsStatus(wf.tick.events[k]) /\ wf.tick.events[k] # ThinkingStatus

\* the latest monitoring tick found the busy indicator and could not load the
\* accept template
AcceptTemplateFailed == wf.tick.busy = "found" /\ ~wf.tick.searched

\* C21 (template decode failure): when the template of the input surface cannot
\* be decoded the call ends, when the template of the busy or of the accept
\* indicator cannot be decoded the monitor loop ends, and in each case the
\* failure has been reported through the status callback.
C21_TemplateDecodeFailure ==
    /\ wf.exit \in {"input_template_decode_failure", "template_decode_failure"} =>
           (wf.pc = "done" /\ FailureReported)
    /\ (wf.pc \in {"monitor", "done"} /\ AcceptTemplateFailed) =>
           (wf.pc = "done" /\ wf.exit = "template_decode_failure" /\ FailureReported)

\* the part of C21 that holds: the input-surface case ends the call with a
\* status callback, and a busy template that cannot be decoded ends the loop
C21_InputAndBusyEnd ==
    /\ wf.exit = "input_template_decode_failure" =>
           (wf.pc = "done" /\ FailureReported /\ ~ENABLED NextWorkflow)
    /\ wf.exit = "template_decode_failure" => (wf.pc = "done" /\ ~ENABLED NextWorkflow)

\* the busy template could not be decoded: nothing was reported
C21_BusyFailureIsSilent ==
    wf.exit = "template_decode_failure" => ~FailureReported

\* an accept template that cannot be decoded does not end the loop by itself
C21_AcceptFailureGoesOn ==
    (wf.pc \in {"monitor", "done"} /\ AcceptTemplateFailed) =>
        (wf.pc = "monitor" \/ wf.exit = "safety_timeout")

\* C22 (run termination): under fair timers every call reaches DONE whatever
\* the screen shows, and once it is DONE nothing further happens: no capture
\* file is touched and no click, key press or status callback is added.
C22_RunTermination ==
    /\ <>(wf.pc = "done")
    /\ [][wf.pc = "done" => (wf' = wf /\ fs' = fs)]_vars

\* the ways the two phases of MonitorProcess end
C22_ExitsOfMonitorProcess ==
    (wf.pc = "done" /\ Logged(IsMonitor) # <<>>) =>
        /\ wf.exit \in {"await_timeout", "template_decode_failure", "normal", "safety_timeout"}
        /\ wf.exit = "await_timeout" => NoMonitoring
        /\ wf.exit = "normal" => ~NoMonitoring

\* C22 witness: the busy indicator was on the screen on every tick followed and
\* the call is DONE by the safety ceiling.
C22_Witness ==
    /\ wf.pc = "done"
    /\ wf.exit = "safety_timeout"
    /\ wf.clock = MaxClock
    /\ wf.tick.busy = "found"
    /\ wf.stretchStart = 1

(***************************************************************************)
(* Claims about the races of the aggregator (specification Spec)           *)
(***************************************************************************)
\* the runs whose batch holds the message with sequence identifier id
RunsWith(id) ==
    {r \in RunIds : \E n \in 1..Len(runs[r].batch.messages) :
        runs[r].batch.messages[n].ID = id}

\* C23 (exactly-once delivery under races): under every interleaving of
\* handleMessage calls and timer callbacks no received message is dispatched in
\* two runs, and once its conversation has settled every received message has
\* been dispatched in one.
C23_ExactlyOnce ==
    /\ \A id \in Delivered : Cardinality(RunsWith(id)) <= 1
    /\ \A k \in 1..Len(arrivals) :
           Settled(arrivals[k].msg.Chat) => Cardinality(RunsWith(arrivals[k].msg.ID)) = 1

\* the half of C23 that holds: no message is lost
C23_NoneLost ==
    \A k \in 1..Len(arrivals) :
        Settled(arrivals[k].msg.Chat) => RunsWith(arrivals[k].msg.ID) # {}

\* without the race (no message was handled while an expired callback of its
\* conversation had not drained yet) no message is dispatched twice
C23_OnceWithoutRace ==
    (\A t1 \in TimerIds, t2 \in TimerIds : (t1 # t2 /\ timers[t1].buf = timers[t2].buf) =>
         (timers[t1].st = "stopped" \/ timers[t2].st = "stopped")) =>
        \A id \in Delivered : Cardinality(RunsWith(id)) <= 1

(***************************************************************************)
(* Claims about bufferLock (specification SpecLock)                        *)
(***************************************************************************)
\* the goroutine that holds bufferLock is inside a critical section: a
\* handleMessage call between its Lock and its deferred Unlock, or a callback
\* between its Lock and its Unlock; a callback that sorts, downloads or starts a
\* run, a run, and a timer that waits hold nothing
HeldForBookkeepingOnly ==
    /\ \A k \in 1..Len(locking.handlers) :
           locking.holder = HandlerG(k) <=> locking.handlers[k].pc \in {"held", "unlock"}
    /\ \A t \in 1..Len(timers) :
           locking.holder = CallbackG(t) <=> timers[t].st = "locked"
    /\ locking.holder[1] \in {"none", "handler", "callback"}

\* a step that changes the registry, or appends to a message list, or swaps or
\* stops a timer, is taken by the holder of bufferLock
BookkeepingUnderLock ==
    [][(\/ bufferMap' # bufferMap
        \/ Len(bufs') # Len(bufs)
        \/ \E b \in 1..Len(bufs) :
               \/ Len(bufs'[b].Messages) # Len(bufs[b].Messages)
               \/ bufs'[b].Timer # bufs[b].Timer
        \/ \E t \in 1..Len(timers) : timers'[t].st = "stopped" /\ timers[t].st # "stopped")
          => locking.holder # Nobody
      ]_vars

\* C24 (lock discipline): every read or write of the registry, of a buffer's
\* timer and of a buffer's message list that another goroutine can use at that
\* moment happens while bufferLock is held, and bufferLock is held only for the
\* bookkeeping: never during a download, a status send, a Workflow Orchestrator
\* call or a timer wait.
C24_LockDiscipline ==
    /\ [](\A a \in locking.unlocked : a.held \/ ~a.shared)
    /\ [](HeldForBookkeepingOnly)
    /\ BookkeepingUnderLock

\* the part of C24 that holds: the lock is held for the bookkeeping only
C24_NeverHeldOutsideBookkeeping == HeldForBookkeepingOnly

\* the part of C24 that holds: registry, append and timer swap under the lock
C24_BookkeepingUnderLock == BookkeepingUnderLock

\* the accesses of the drained list are all made without the lock
C24_DrainedListUnlocked == \A a \in locking.unlocked : ~a.held

\* without two callbacks on one buffer instance the drained list has one user
C24_PrivateWithoutStaleTimer ==
    (\A t1 \in 1..Len(timers), t2 \in 1..Len(timers) :
         (t1 # t2 /\ timers[t1].buf = timers[t2].buf) =>
             (timers[t1].st \in {"stopped", "armed"} \/ timers[t2].st \in {"stopped", "armed"}))
        => \A a \in locking.unlocked : ~a.shared

(***************************************************************************)
(* Further claims about one Workflow Orchestrator call                     *)
(***************************************************************************)
\* what the j-th iteration of the loop over imagePaths leaves in the log
ImageStep(j) == SubSeq(wf.log, 2 * j + 1, 2 * j + 2)

\* what follows the loop in the log
AfterImages == SubSeq(wf.log, 2 * wf.nImages + 3, Len(wf.log))

CaptionStep ==
    IF ~wf.hasText THEN {<<>>}
    ELSE {<<Ev("clipboard", "text"), PasteKey>>,
          <<Ev("clipboard_failed", "text"), ClipboardTextStatus>>}

\* C25 (multi-attachment ordering): in a FullWorkflowMediaGroup call whose input
\* surface is found the input surface is clicked before any paste; once the
\* loop is over every attachment has been set on the clipboard and pasted, in
\* list order; then the caption is set and pasted; then one submit key press,
\* the only one, follows all of them; and MonitorProcess starts right after
\* that submit, not before.
C25_MultiAttachmentOrdering ==
    (wf.variant = "FullWorkflowMediaGroup" /\ wf.pc \in {"place", "await", "monitor", "done"}
        /\ wf.exit \notin InputFailures) =>
        /\ Len(wf.log) >= 2 + 2 * wf.i
        /\ wf.log[1] = FindInput
        /\ wf.log[2].ev = "click" /\ wf.log[2].arg = "input"
        /\ Len(Logged(IsClick)) = 1
        /\ \A j \in 1..wf.i : ImageStep(j) = <<ClipboardImage(j), PasteKey>>
        /\ IF wf.pc = "place"
           THEN /\ Len(wf.log) = 2 + 2 * wf.i
                /\ wf.i <= wf.nImages
                /\ SubmitKey \notin {wf.log[k] : k \in 1..Len(wf.log)}
                /\ Logged(IsMonitor) = <<>>
                /\ NoMonitoring
           ELSE /\ wf.i = wf.nImages
                /\ AfterImages = (IF wf.hasText THEN <<Ev("clipboard", "text"), PasteKey>>
                                  ELSE <<>>) \o <<SubmitKey, MonitorStart>>
                /\ Len(SelectSeq(wf.log, LAMBDA e : e = SubmitKey)) = 1

\* the part of C25 that holds: the order of what is placed.  The click comes
\* first, the attachments are taken in list order, each pasted at once when its
\* clipboard set succeeds and reported when it fails, the caption comes after
\* them, then the one submit key press, then MonitorProcess.
C25_OrderOfPlacement ==
    (wf.variant = "FullWorkflowMediaGroup" /\ wf.pc \in {"place", "await", "monitor", "done"}
        /\ wf.exit \notin InputFailures) =>
        /\ Len(wf.log) >= 2 + 2 * wf.i
        /\ wf.log[1] = FindInput
        /\ wf.log[2].ev = "click" /\ wf.log[2].arg = "input"
        /\ Len(Logged(IsClick)) = 1
        /\ \A j \in 1..wf.i :
               ImageStep(j) \in {<<ClipboardImage(j), PasteKey>>,
                                 <<Ev("clipboard_failed", "image"), ClipboardImageStatus>>}
        /\ IF wf.pc = "place"
           THEN /\ Len(wf.log) = 2 + 2 * wf.i
                /\ wf.i <= wf.nImages
                /\ SubmitKey \notin {wf.log[k] : k \in 1..Len(wf.log)}
                /\ Logged(IsMonitor) = <<>>
                /\ NoMonitoring
           ELSE /\ wf.i = wf.nImages
                /\ \E caption \in CaptionStep :
                       AfterImages = caption \o <<SubmitKey, MonitorStart>>
                /\ Len(SelectSeq(wf.log, LAMBDA e : e = SubmitKey)) = 1

\* and with no clipboard failure the claimed order is what happens
C25_WithoutClipboardFailure ==
    (\A k \in 1..Len(wf.log) : wf.log[k].ev # "clipboard_failed") =>
        C25_MultiAttachmentOrdering

\* the latest monitoring tick was skipped: its capture could not be loaded
\* (scrot failed, or the file could not be decoded)
SkippedTick == wf.tick.busy = "skipped" /\ wf.tick.n = wf.clock

\* C26 (capture failure is skipped): a monitoring tick whose capture cannot be
\* loaded does not end the loop, makes no status callback and no click, and
\* leaves the not-found streak and the time of the last status as they were.
C26_CaptureFailureSkipped ==
    /\ [](SkippedTick =>
             /\ wf.tick.events = <<>>
             /\ ~wf.tick.searched
             /\ wf.pc = "monitor" \/ wf.exit = "safety_timeout")
    /\ [][(wf.pc = "monitor" /\ wf'.tick.busy = "skipped" /\ wf'.clock = wf.clock + 1) =>
              /\ wf'.pc = "monitor"
              /\ wf'.notFoundCount = wf.notFoundCount
              /\ wf'.lastThinkingTime = wf.lastThinkingTime
              /\ wf'.lastPulseAt = wf.lastPulseAt
              /\ wf'.checks = wf.checks
              /\ wf'.log = wf.log
              /\ fs' = RemoveFile(fs, monitorScreenPng)
         ]_vars

\* C26 witness: after a status callback and three ticks without the busy
\* indicator, a tick was skipped and the loop is running with its streak of 3.
C26_Witness ==
    /\ wf.pc = "monitor"
    /\ SkippedTick
    /\ wf.notFoundCount = 3
    /\ wf.lastPulseAt = 1
    /\ wf.clock = 5

(***************************************************************************)
(* Further claims about the template matcher                               *)
(***************************************************************************)
\* the result of findImageInImage with its done flag left out
Result(m) == [x |-> m.x, y |-> m.y, found |-> m.found]

\* C27 (fast path and slow path agree): on the pixel contents of the screen and
\* the template that findImageInImage was called with, the fast path and the
\* slow per-pixel path return the same result, found at the same position or
\* both not found, whichever of the two has computed the result.
C27_FastAndSlowAgree ==
    match.done =>
        /\ findImageInImageFast(screenImg, tmplImg) = ScanSlow(screenImg, tmplImg, 0, 0)
        /\ Result(match) = ScanSlow(screenImg, tmplImg, 0, 0)

\* the part of C27 that holds: both paths scan the same candidate positions
C27_SameCandidates ==
    CandidatesFast(screenImg, tmplImg) = CandidatesSlow(screenImg, tmplImg)

\* the two paths differ exactly where a channel of the one candidate differs
\* from the template by Threshold or Threshold + 1 and none by more
C27_DifferOnlyAtTheEdge ==
    match.done =>
        ((findImageInImageFast(screenImg, tmplImg) # ScanSlow(screenImg, tmplImg, 0, 0))
            <=> /\ \E d \in TopLeftDiffs : d \in {Threshold, Threshold + 1}
                /\ \A d \in TopLeftDiffs : d <= Threshold + 1)

(***************************************************************************)
(* Further claims about the runs (specification SpecRun)                   *)
(***************************************************************************)
\* the downloaded attachment files of run r that are present and still its own
OwnFiles(r) ==
    {runs[r].batch.imagePaths[i] : i \in {j \in 1..Len(runs[r].batch.imagePaths) :
        [path |-> runs[r].batch.imagePaths[j], owner |-> Owner(r)] \in fs}}

AllPaths(r) == {runs[r].batch.imagePaths[i] : i \in 1..Len(runs[r].batch.imagePaths)}

\* C28 (transient attachment paths are not shared between live runs): until a
\* run has ended, every attachment file downloaded for its batch is present as
\* that batch's download: no other batch's download has overwritten it and no
\* other run's cleanup has removed it.
C28_AttachmentPathsNotShared ==
    \A r \in RunIds : runs[r].pc # "done" => OwnFiles(r) = AllPaths(r)

\* the part of C28 that holds: runs of different conversations share no path
C28_DistinctAcrossConversations ==
    \A r1 \in RunIds, r2 \in RunIds :
        runs[r1].chatID # runs[r2].chatID => AllPaths(r1) \cap AllPaths(r2) = {}

\* and the files of a run are disturbed only by a batch of the same conversation
C28_OnlySameConversation ==
    \A r \in RunIds :
        (runs[r].pc # "done" /\ OwnFiles(r) # AllPaths(r)) =>
            \E t \in TimerIds :
                /\ t # runs[r].timer
                /\ timers[t].chatID = runs[r].chatID
                /\ timers[t].st = "done"

(***************************************************************************)
(* Claims about the protocol server (specification SpecServer)             *)
(***************************************************************************)
Goroutines == 1..Len(server.reqs)

\* the positions of the output at which a line written for request g ends
LinesOf(g) == {k \in 1..Len(server.out) : server.out[k].from = g /\ server.out[k].last}

\* the output is a sequence of whole lines, the last of which may be under way
\* in the hands of the holder of the mutex
WholeLines ==
    \A k \in 1..Len(server.out) :
        IF server.out[k].last
        THEN /\ k > 1
             /\ server.out[k - 1] = [server.out[k] EXCEPT !.last = FALSE]
        ELSE IF k = Len(server.out)
             THEN server.mu = server.out[k].from
             ELSE server.out[k + 1] = [server.out[k] EXCEPT !.last = TRUE]

\* exactly one of result and error is set
OneOfResultOrError(resp) == (resp.result # NoResult) # (resp.error # NoError)

\* what requests and responses have in common, whatever the ids: no response
\* for a line that does not decode or for notifications/initialized, at most one
\* response line per request and exactly one once its goroutine has returned,
\* with one of result and error, every line written whole, and every
\* goroutine returns
ResponsesButIds ==
    /\ WholeLines
    /\ \A k \in 1..Len(server.out) : server.out[k].from \in Goroutines
    /\ Len(server.reqs) <= server.scanned
    /\ \A g \in Goroutines :
           LET r == server.reqs[g]
           IN  /\ r.sent.json
               /\ Cardinality(LinesOf(g)) <= 1
               /\ r.sent.method = "notifications/initialized" =>
                      \A k \in 1..Len(server.out) : server.out[k].from # g
               /\ (r.pc = "done" /\ r.sent.method # "notifications/initialized") =>
                      /\ Cardinality(LinesOf(g)) = 1
                      /\ \A k \in LinesOf(g) : OneOfResultOrError(server.out[k].resp)
    /\ ~ENABLED NextServer => \A g \in Goroutines : server.reqs[g].pc = "done"

\* C29 (protocol server responses): every request line the server parses, other
\* than notifications/initialized, produces exactly one response line, which
\* carries the id of the request line and has exactly one of result and error
\* set, under every interleaving of the goroutines, each line written whole;
\* notifications/initialized produces no response.
C29_ProtocolResponses ==
    /\ ResponsesButIds
    /\ \A g \in Goroutines : \A k \in LinesOf(g) :
           server.out[k].resp.id = server.reqs[g].sent.id

\* the part of C29 that holds: everything but the echo of the id
C29_ResponsesButIds == ResponsesButIds

\* the id of a response is the request's id after its passage through float64:
\* the request's id itself unless it is an integer that float64 cannot hold
C29_IdsThroughFloat64 ==
    \A g \in Goroutines : \A k \in LinesOf(g) :
        LET id == server.reqs[g].sent.id
        IN  /\ server.out[k].resp.id = MarshalId(UnmarshalId(id))
            /\ (id.t # "num" \/ id.hi = 0 \/ id.lo % 2 = 0) => server.out[k].resp.id = id

====
